---- MODULE Spec2Model ----
(***************************************************************************)
(* State-machine model of the analysis backend: the fragment normalizer,   *)
(* the stream accumulator, the pricing engine and the chat-session / cache *)
(* lifecycle of the free-tier service (src/apicodebackend/services.py) and *)
(* of the paid-tier service (src/backend/services_paid.py).                *)
(*                                                                         *)
(* Conventions.  An optional value (Python None or a value) is a sequence  *)
(* of length 0 or 1.  A text is a sequence of characters; the empty text   *)
(* and None are both falsy in the code and are both <<>> here.  A dict is  *)
(* a function whose domain is its set of keys.  Handles and names handed   *)
(* out by the external service are positive integers, 0 is None.  Money is *)
(* an integer number of micro-dollars once rounded to 6 decimals, and of   *)
(* nano-dollars before rounding.                                           *)
(***************************************************************************)
EXTENDS Integers, Sequences, FiniteSets, TLC

(***************************************************************************)
(* Bounds of the model.                                                    *)
(***************************************************************************)
MaxChunks == 2          \* chunks one upstream response may deliver
MaxParts == 3           \* parts one upstream response may deliver in all
MaxReqs == 3            \* request handlers (create / send) ever started
MaxChats == 2           \* identifiers uuid4 may hand out

Reqs == 1..MaxReqs
ChatIds == 1..MaxChats

\* Mutant: max that forgets its first argument.
Max_second(a, b) == b

Max(a, b) == IF a >= b THEN a ELSE b
Last(s) == s[Len(s)]

\* All sequences over S of length 0..n.
RECURSIVE SeqsUpTo(_, _)
SeqsUpTo(S, n) ==
    IF n = 0 THEN {<<>>}
    ELSE LET shorter == SeqsUpTo(S, n - 1)
         IN  shorter \cup {Append(s, x) : s \in {t \in shorter : Len(t) = n - 1}, x \in S}

(***************************************************************************)
(* Inputs: model identifiers, usage metadata, response parts.              *)
(***************************************************************************)
\* Model identifiers, as character sequences: a flash id, a pro id written
\* with capitals, and an identifier no pricing table knows.
ModelNames ==
    { <<"f", "l", "a", "s", "h">>, <<"2", "-", "P", "r", "o">>, <<"x", "1">> }

\* usage_metadata objects the upstream service may attach to a chunk.
Usages ==
    << [prompt_token_count |-> 8, cached_content_token_count |-> 0,
        candidates_token_count |-> 4, thoughts_token_count |-> 0,
        tool_use_prompt_token_count |-> 0],
       [prompt_token_count |-> 200001, cached_content_token_count |-> 1000,
        candidates_token_count |-> 6, thoughts_token_count |-> 2,
        tool_use_prompt_token_count |-> 3] >>

Part(text, ec, cer, idata, fdata) ==
    [text |-> text, executable_code |-> ec, code_execution_result |-> cer,
     inline_data |-> idata, file_data |-> fdata]

TextPart(t) == Part(t, <<>>, <<>>, <<>>, <<>>)
EmptyPart == TextPart(<<>>)
SomeCode == <<[language |-> "PYTHON", code |-> "print(1)"]>>
SomeResult == <<[outcome |-> "OUTCOME_OK", output |-> "1"]>>
SomeInline == <<[mime_type |-> "image/png", data |-> <<137, 80>>]>>
\* Inline data whose data attribute is not a bytes object (None): -1 stands
\* for what is no byte.
BadInline == <<[mime_type |-> "image/png", data |-> <<-1>>]>>
SomeFile == <<[mime_type |-> "application/pdf",
               file_uri |-> <<"https:", "", "host", "v1beta", "files", "abc">>]>>

\* The parts a response of the stream specifications is built from: two
\* different texts, a part with no recognized payload, a part with executable
\* code, a part with a file reference, and a part that carries text together
\* with executable code.
StreamParts ==
    { TextPart(<<"A">>), TextPart(<<"B">>), EmptyPart,
      Part(<<>>, SomeCode, <<>>, <<>>, <<>>),
      Part(<<>>, <<>>, <<>>, <<>>, SomeFile),
      Part(<<"A">>, SomeCode, <<>>, <<>>, <<>>) }

\* The parts a response inside a chat session is built from.
SessionParts == { TextPart(<<"A">>) }
\* What the response to a message sent inside a chat session may deliver.
SessionResponse == [chunks |-> 1, parts |-> 1, rich |-> FALSE]

\* The model identifiers the streams and chat sessions are created for.
StreamModels == { <<"f", "l", "a", "s", "h">>, <<"2", "-", "P", "r", "o">> }

\* What the environment does when a referenced file is fetched: files.get
\* answers or raises; the handle offers download(), a uri, or neither; the
\* download answers, raises a requests.RequestException, or raises otherwise.
FetchOutcomes ==
    { [get |-> "ok", display_name |-> <<"report.pdf">>, capability |-> "uri",
       download |-> "ok", content |-> <<37, 80, 68>>],
      [get |-> "ok", display_name |-> <<"report.pdf">>, capability |-> "uri",
       download |-> "network", content |-> <<>>],
      [get |-> "error", display_name |-> <<>>, capability |-> "none",
       download |-> "error", content |-> <<>>] }

\* Every way the fetch of a referenced file can go: files.get fails; the
\* file object can be downloaded by its own method, by its uri, or not at
\* all; the download succeeds, raises a requests exception ("network") or
\* raises anything else.
AllFetchOutcomes ==
    FetchOutcomes \cup
    { [get |-> "ok", display_name |-> <<"report.pdf">>, capability |-> "none",
       download |-> "error", content |-> <<>>],
      [get |-> "ok", display_name |-> <<"downloaded_file">>, capability |-> "download",
       download |-> "ok", content |-> <<37>>],
      [get |-> "ok", display_name |-> <<"report.pdf">>, capability |-> "download",
       download |-> "network", content |-> <<>>],
      [get |-> "ok", display_name |-> <<"report.pdf">>, capability |-> "download",
       download |-> "error", content |-> <<>>] }

\* Parts with a file reference, alone or next to other payloads.
OtherFile == <<[mime_type |-> "image/png", file_uri |-> <<"files", "xyz">>]>>
NormalizerParts ==
    { Part(<<>>, <<>>, <<>>, <<>>, SomeFile),
      Part(<<>>, <<>>, <<>>, <<>>, OtherFile),
      Part(<<"A">>, <<>>, <<>>, <<>>, SomeFile),
      Part(<<>>, SomeCode, <<>>, <<>>, OtherFile),
      Part(<<>>, <<>>, SomeResult, <<>>, SomeFile),
      Part(<<>>, <<>>, <<>>, SomeInline, OtherFile) }

(***************************************************************************)
(* Conversions.                                                            *)
(***************************************************************************)
\* base64.b64encode: every 3 bytes give 4 sextets; 64 stands for the '='
\* padding character.
RECURSIVE b64encode(_)
b64encode(bytes) ==
    IF bytes = <<>> THEN <<>>
    ELSE LET n  == Len(bytes)
             b1 == bytes[1]
             b2 == IF n >= 2 THEN bytes[2] ELSE 0
             b3 == IF n >= 3 THEN bytes[3] ELSE 0
             v  == b1 * 65536 + b2 * 256 + b3
             quad == << v \div 262144, (v \div 4096) % 64,
                        IF n >= 2 THEN (v \div 64) % 64 ELSE 64,
                        IF n >= 3 THEN v % 64 ELSE 64 >>
         IN  quad \o (IF n > 3 THEN b64encode(SubSeq(bytes, 4, n)) ELSE <<>>)

\* json.dumps of one dict: its key/value pairs in insertion order.  The
\* normalizer inserts the keys in this order, and a costData dict stands alone.
KeyOrder ==
    <<"text", "executableCode", "codeExecutionResult", "inlineData", "fileData",
      "costData">>

RECURSIVE DumpsDict(_, _)
DumpsDict(d, i) ==
    IF i > Len(KeyOrder) THEN <<>>
    ELSE (IF KeyOrder[i] \in DOMAIN d THEN <<<<KeyOrder[i], d[KeyOrder[i]]>>>> ELSE <<>>)
         \o DumpsDict(d, i + 1)

\* Mutant: a line carries only the newest fragment (a diff, not a snapshot).
json_dumps_diff(parts) ==
    IF parts = <<>> THEN <<>> ELSE <<DumpsDict(parts[Len(parts)], 1)>>

\* json.dumps(accumulated_parts) + "\n": one line, the serialized fragments in
\* list order.
json_dumps(parts) == [i \in 1..Len(parts) |-> DumpsDict(parts[i], 1)]

(***************************************************************************)
(* Pricing engine (src/backend/pricing.py).  Rates are in milli-dollars    *)
(* per million tokens, so tokens * rate is a cost in nano-dollars.         *)
(***************************************************************************)
DefaultTierLimit == 128000
\* Mutant: the pro family without a tier_limit of its own.
TierLimitPro_default == DefaultTierLimit
TierLimitPro == 200000
StorageMinutes == 10

PRICING_TIERS ==
    [ flash |->
        [ tier_limit |-> <<>>,
          tier_1 |-> [input |-> 300, output |-> 2500, cache_read |-> 30, storage |-> 1000],
          tier_2 |-> [input |-> 300, output |-> 2500, cache_read |-> 30, storage |-> 1000] ],
      pro |->
        [ tier_limit |-> <<TierLimitPro>>,
          tier_1 |-> [input |-> 1250, output |-> 10000, cache_read |-> 125, storage |-> 4500],
          tier_2 |-> [input |-> 2500, output |-> 15000, cache_read |-> 250, storage |-> 4500] ] ]

\* str.lower on the letters the identifiers use.
LowerChar(c) ==
    CASE c = "P" -> "p" [] c = "R" -> "r" [] c = "O" -> "o"
      [] c = "F" -> "f" [] c = "X" -> "x" [] OTHER -> c

lower(s) == [i \in 1..Len(s) |-> LowerChar(s[i])]

\* Python's `sub in s` on strings.
Contains(s, sub) ==
    \E i \in 0..(Len(s) - Len(sub)) : SubSeq(s, i + 1, i + Len(sub)) = sub

\* Mutant: the family is looked up without lowering the case.
get_pricing_model_cased(model_name) ==
    IF Contains(model_name, <<"p", "r", "o">>) THEN "pro" ELSE "flash"

get_pricing_model(model_name) ==
    IF Contains(lower(model_name), <<"p", "r", "o">>) THEN "pro" ELSE "flash"

\* round(x, 6) of a cost of num/den nano-dollars, in micro-dollars: the
\* nearest micro-dollar.  (At an exact tie the binary float decides in the
\* code; the usage inputs of this model produce no tie.)
Round6(num, den) == (2 * num + 1000 * den) \div (2000 * den)

calculate_interaction_cost(usage_metadata, model) ==
    LET model_key == get_pricing_model(model)
        pricing_config == PRICING_TIERS[model_key]
        cached_tokens == usage_metadata.cached_content_token_count
        total_prompt_tokens == usage_metadata.prompt_token_count
        candidates_tokens == usage_metadata.candidates_token_count
        tool_tokens == usage_metadata.tool_use_prompt_token_count
        thoughts_tokens == usage_metadata.thoughts_token_count
        new_input_tokens == Max(0, total_prompt_tokens - cached_tokens + tool_tokens)
        total_output_tokens == candidates_tokens + thoughts_tokens
        tier_limit == IF pricing_config.tier_limit = <<>> THEN DefaultTierLimit
                      ELSE pricing_config.tier_limit[1]
        rates == IF total_prompt_tokens <= tier_limit THEN pricing_config.tier_1
                 ELSE pricing_config.tier_2
        input_cost == new_input_tokens * rates.input
        output_cost == total_output_tokens * rates.output
        cache_read_cost == cached_tokens * rates.cache_read
        total_cost == input_cost + output_cost + cache_read_cost
    IN  [ model_used |-> model_key,
          currency |-> "USD",
          token_breakdown |->
              [ new_input |-> new_input_tokens, cached_input |-> cached_tokens,
                output |-> total_output_tokens,
                total |-> total_prompt_tokens + total_output_tokens ],
          cost_breakdown |->
              ( "input_cost" :> Round6(input_cost, 1)
                @@ "output_cost" :> Round6(output_cost, 1)
                @@ "cache_read_cost" :> Round6(cache_read_cost, 1) ),
          total_cost |-> Round6(total_cost, 1) ]

\* Mutant: the duration is taken for hours.
calculate_storage_cost_hours(cached_tokens, duration_minutes, model) ==
    LET pricing_config == PRICING_TIERS[get_pricing_model(model)]
        hourly_rate == pricing_config.tier_1.storage
    IN  Round6(cached_tokens * hourly_rate * duration_minutes, 1)

\* (tokens / 1M) * hourly rate * (minutes / 60), rounded to 6 decimals.
calculate_storage_cost(cached_tokens, duration_minutes, model) ==
    LET pricing_config == PRICING_TIERS[get_pricing_model(model)]
        hourly_rate == pricing_config.tier_1.storage
    IN  Round6(cached_tokens * hourly_rate * duration_minutes, 60)

(***************************************************************************)
(* Fragment normalizer (_serialize_part, _download_file_sync).             *)
(***************************************************************************)
SetKey(d, k, v) == (k :> v) @@ d

\* The name files.get is called with.  A reference is held as its components
\* between the slashes.  The paid service, when "/files/" occurs in the
\* reference, passes "files/" and what follows the last "/files/"; the free
\* service passes the reference as it is.
file_name_arg(service, file_uri) ==
    LET at == {i \in 2..(Len(file_uri) - 1) : file_uri[i] = "files"}
    IN  IF service = "paid" /\ at # {}
        THEN LET last == CHOOSE i \in at : \A j \in at : j <= i
             IN  <<"files">> \o SubSeq(file_uri, last + 1, Len(file_uri))
        ELSE file_uri

\* Mutant: after a network error the display name is reported all the same.
FileDataDict_mixed(file_data, fetch) ==
    IF fetch.get = "ok" /\ fetch.capability # "none" /\ fetch.download = "ok"
    THEN [ mimeType |-> file_data.mime_type,
           data |-> b64encode(fetch.content),
           name |-> fetch.display_name ]
    ELSE IF fetch.get = "ok" /\ fetch.capability # "none" /\ fetch.download = "network"
    THEN [ mimeType |-> file_data.mime_type, fileUri |-> file_data.file_uri,
           error |-> <<"Network error: ", "exception text">>,
           name |-> fetch.display_name ]
    ELSE [ mimeType |-> file_data.mime_type, fileUri |-> file_data.file_uri,
           error |-> <<"Processing error: ", "exception text">> ]

\* The fileData value of a part with a file reference, given what the fetch
\* of the referenced file does.
FileDataDict(file_data, fetch) ==
    LET processing_error ==
            [ mimeType |-> file_data.mime_type, fileUri |-> file_data.file_uri,
              error |-> <<"Processing error: ", "exception text">> ]
        network_error ==
            [ mimeType |-> file_data.mime_type, fileUri |-> file_data.file_uri,
              error |-> <<"Network error: ", "exception text">> ]
    IN  IF fetch.get # "ok" THEN processing_error
        ELSE IF fetch.capability = "none" THEN processing_error
        ELSE IF fetch.download = "network" THEN network_error
        ELSE IF fetch.download # "ok" THEN processing_error
        ELSE [ mimeType |-> file_data.mime_type,
               data |-> b64encode(fetch.content),
               name |-> fetch.display_name ]

\* _serialize_part raises: base64.b64encode is applied to the inline data
\* outside any try/except, and raises TypeError on what is not bytes.
serialize_part_raises(part) ==
    /\ part.inline_data # <<>>
    /\ \E i \in DOMAIN part.inline_data[1].data : part.inline_data[1].data[i] \notin 0..255

\* _serialize_part: the dict of one response part.
serialize_part(part, fetch) ==
    LET d0 == <<>>
        d1 == IF part.text # <<>> THEN SetKey(d0, "text", part.text) ELSE d0
        d2 == IF part.executable_code # <<>>
              THEN SetKey(d1, "executableCode",
                          [ language |-> part.executable_code[1].language,
                            code |-> part.executable_code[1].code ])
              ELSE d1
        d3 == IF part.code_execution_result # <<>>
              THEN SetKey(d2, "codeExecutionResult",
                          [ outcome |-> part.code_execution_result[1].outcome,
                            output |-> part.code_execution_result[1].output ])
              ELSE d2
        d4 == IF part.inline_data # <<>>
              THEN SetKey(d3, "inlineData",
                          [ mimeType |-> part.inline_data[1].mime_type,
                            data |-> b64encode(part.inline_data[1].data) ])
              ELSE d3
        d5 == IF part.file_data # <<>>
              THEN SetKey(d4, "fileData", FileDataDict(part.file_data[1], fetch))
              ELSE d4
    IN  d5

(***************************************************************************)
(* Stream accumulator (_stream_response), as operators on its locals.      *)
(***************************************************************************)
\* Mutants of the merge rule: merging into the first fragment instead of the
\* last one, and never merging.
MergeOrAppend_first(accumulated, part_dict) ==
    IF /\ "text" \in DOMAIN part_dict
       /\ accumulated # <<>>
       /\ "text" \in DOMAIN accumulated[1]
    THEN [accumulated EXCEPT ![1] = [@ EXCEPT !["text"] = @ \o part_dict["text"]]]
    ELSE Append(accumulated, part_dict)

MergeOrAppend_never(accumulated, part_dict) == Append(accumulated, part_dict)

\* Mutant: an error fragment starts the accumulated sequence afresh.
MergeOrAppend_reset(accumulated, part_dict) ==
    IF "fileData" \in DOMAIN part_dict /\ "error" \in DOMAIN part_dict["fileData"]
    THEN <<part_dict>>
    ELSE IF /\ "text" \in DOMAIN part_dict
            /\ accumulated # <<>>
            /\ "text" \in DOMAIN Last(accumulated)
    THEN [accumulated EXCEPT ![Len(accumulated)] =
              [@ EXCEPT !["text"] = @ \o part_dict["text"]]]
    ELSE Append(accumulated, part_dict)

\* Mutant: only results with text reach the accumulated sequence.
MergeOrAppend_textonly(accumulated, part_dict) ==
    IF "text" \notin DOMAIN part_dict THEN accumulated
    ELSE IF accumulated # <<>> /\ "text" \in DOMAIN Last(accumulated)
    THEN [accumulated EXCEPT ![Len(accumulated)] =
              [@ EXCEPT !["text"] = @ \o part_dict["text"]]]
    ELSE Append(accumulated, part_dict)

\* The merge rule: text is concatenated into a last fragment that has text,
\* anything else is appended.
MergeOrAppend(accumulated, part_dict) ==
    IF /\ "text" \in DOMAIN part_dict
       /\ accumulated # <<>>
       /\ "text" \in DOMAIN Last(accumulated)
    THEN [accumulated EXCEPT ![Len(accumulated)] =
              [@ EXCEPT !["text"] = @ \o part_dict["text"]]]
    ELSE Append(accumulated, part_dict)

\* Mutant: a chunk without usage metadata erases the one remembered.
CaptureUsage_erase(remembered, usage_metadata) == usage_metadata

\* Mutant: the first usage metadata seen is kept.
CaptureUsage_first(remembered, usage_metadata) ==
    IF remembered # <<>> THEN remembered ELSE usage_metadata

\* A chunk's usage metadata, when it has any, replaces the one remembered.
CaptureUsage(remembered, usage_metadata) ==
    IF usage_metadata # <<>> THEN usage_metadata ELSE remembered

\* The cost fragment appended when the upstream source is exhausted.  The
\* free-tier service adds a storage cost for a fixed 10 minutes.
\* Mutant: the storage cost is reported but not added to the total.
CostData_forget(tier, usage_metadata, model) ==
    LET cost_data == calculate_interaction_cost(usage_metadata, model)
        storage_cost == calculate_storage_cost(cost_data.token_breakdown.cached_input,
                                               StorageMinutes, model)
    IN  IF tier = "free"
        THEN [cost_data EXCEPT !.cost_breakdown = ("storage_cost" :> storage_cost) @@ @]
        ELSE cost_data

CostData(tier, usage_metadata, model) ==
    LET cost_data == calculate_interaction_cost(usage_metadata, model)
        storage_cost == calculate_storage_cost(cost_data.token_breakdown.cached_input,
                                               StorageMinutes, model)
    IN  IF tier = "free"
        THEN [cost_data EXCEPT
                 !.cost_breakdown = ("storage_cost" :> storage_cost) @@ @,
                 !.total_cost = @ + storage_cost]
        ELSE cost_data

CostFragment(tier, usage_metadata, model) ==
    "costData" :> CostData(tier, usage_metadata, model)

\* Mutant: the cost fragment is put in front of the sequence.
FinalParts_front(accumulated, remembered, tier, model) ==
    IF remembered # <<>>
    THEN <<CostFragment(tier, remembered[1], model)>> \o accumulated
    ELSE accumulated

\* The accumulated sequence once the upstream source is exhausted.
FinalParts(accumulated, remembered, tier, model) ==
    IF remembered # <<>>
    THEN Append(accumulated, CostFragment(tier, remembered[1], model))
    ELSE accumulated

(***************************************************************************)
(* State.                                                                  *)
(***************************************************************************)
VARIABLES
    tier,                   \* the service that runs: "free" or "paid"
    chat_sessions,          \* self._chat_sessions: chat id -> session dict
    issued,                 \* the ids uuid4 has returned so far
    files,                  \* external service: the files uploaded, by handle
    caches,                 \* external service: the caches created, by name
    pc,                     \* per request handler: where it stands
    frame,                  \* per request handler: its arguments and locals
    response,               \* per request: what the upstream iterator may still deliver
    chunk,                  \* per request: parts of the chunk being processed, and position
    accumulated_parts,      \* per request: the accumulated sequence
    final_usage_metadata,   \* per request: the latest usage metadata seen
    emitted,                \* per request: the lines yielded so far
    arrived,                \* per request: the parts normalized so far (history)
    usage_seen              \* per request: index in Usages of the metadata of the
                            \* last chunk that carried any, 0 if none did (history)

vars ==
    << tier, chat_sessions, issued, files, caches, pc, frame, response, chunk,
       accumulated_parts, final_usage_metadata, emitted, arrived, usage_seen >>

session_vars == << chat_sessions, issued, files, caches >>
stream_vars ==
    << response, chunk, accumulated_parts, final_usage_metadata, emitted, arrived,
       usage_seen >>

\* A handler's frame: the operation, its arguments and locals, the error it
\* raised, and the calls it made on the external service so far (history).
\* `known` tells whether chat_id was registered when the handler began.
NoFrame ==
    [ op |-> "none", chat_id |-> 0, known |-> FALSE, cache_name |-> 0, model |-> <<>>,
      file_content |-> <<>>, filename |-> <<>>, content_type |-> <<>>, file |-> 0,
      error |-> "", prompt |-> <<>>, message |-> <<>>,
      events |-> <<>> ]
NoChunk == [parts |-> <<>>, index |-> 0, unread |-> <<>>]
NoResponse == [chunks |-> 0, parts |-> 0, rich |-> FALSE]

\* A fetch outcome for a part without a file reference: nothing is fetched.
NoFetch ==
    [ get |-> "none", display_name |-> <<>>, capability |-> "none",
      download |-> "none", content |-> <<>> ]

\* The candidates lists a chunk may carry when the response may still deliver
\* n parts: none, or one candidate whose content holds up to n parts.
CandidateLists(n, alphabet) ==
    {<<>>} \cup {<<[content |-> [parts |-> ps]]>> : ps \in SeqsUpTo(alphabet, n)}

\* A chunk of two candidates: the first holds one part (if the response may
\* still deliver one), the second a text.
TwoCandidateLists(n, alphabet) ==
    { <<[content |-> [parts |-> <<p>>]], [content |-> [parts |-> <<TextPart(<<"B">>)>>]]>> :
          p \in IF n >= 1 THEN alphabet ELSE {} }

\* A chunk whose candidate holds one part with malformed inline data.
MalformedLists(n) ==
    IF n >= 1 THEN {<<[content |-> [parts |-> <<Part(<<>>, <<>>, <<>>, BadInline, <<>>)>>]]>>}
    ELSE {}

\* The parts of the candidates after the first, which the loop never reads.
RECURSIVE PartsAfterFirst(_)
PartsAfterFirst(candidates) ==
    IF Len(candidates) <= 1 THEN <<>>
    ELSE candidates[2].content.parts \o PartsAfterFirst(Tail(candidates))

(***************************************************************************)
(* _stream_response, one action per step of its loop.  A handler is at     *)
(* "pull" when it asks the upstream iterator for the next chunk, at "part" *)
(* inside the loop over the parts of a chunk.                              *)
(***************************************************************************)
\* Mutant: the accumulated sequence is one list shared by all runs (a mutable
\* default argument): a run starts with what another run has accumulated.
StartStream_shared(r, upstream) ==
    /\ response' = [response EXCEPT ![r] = upstream]
    /\ chunk' = [chunk EXCEPT ![r] = NoChunk]
    /\ accumulated_parts' =
          [accumulated_parts EXCEPT ![r] =
              IF \E q \in Reqs \ {r} : accumulated_parts[q] # <<>>
              THEN accumulated_parts[CHOOSE q \in Reqs \ {r} : accumulated_parts[q] # <<>>]
              ELSE <<>>]
    /\ final_usage_metadata' = [final_usage_metadata EXCEPT ![r] = <<>>]
    /\ emitted' = [emitted EXCEPT ![r] = <<>>]
    /\ arrived' = [arrived EXCEPT ![r] = <<>>]
    /\ usage_seen' = [usage_seen EXCEPT ![r] = 0]

\* _stream_response is entered: fresh locals.
StartStream(r, upstream) ==
    /\ response' = [response EXCEPT ![r] = upstream]
    /\ chunk' = [chunk EXCEPT ![r] = NoChunk]
    /\ accumulated_parts' = [accumulated_parts EXCEPT ![r] = <<>>]
    /\ final_usage_metadata' = [final_usage_metadata EXCEPT ![r] = <<>>]
    /\ emitted' = [emitted EXCEPT ![r] = <<>>]
    /\ arrived' = [arrived EXCEPT ![r] = <<>>]
    /\ usage_seen' = [usage_seen EXCEPT ![r] = 0]

\* The iterator yields a chunk: its usage metadata is remembered, and the loop
\* over the parts of its first candidate is entered.
NextChunk(r) ==
    /\ pc[r] = "pull"
    /\ response[r].chunks > 0
    /\ \E u \in (IF response[r].rich THEN 0..Len(Usages) ELSE 0..1),
          candidates \in IF response[r].rich
                         THEN CandidateLists(response[r].parts, StreamParts)
                              \cup TwoCandidateLists(response[r].parts, StreamParts)
                              \cup MalformedLists(response[r].parts)
                         ELSE CandidateLists(response[r].parts, SessionParts) :
          LET parts == IF Len(candidates) > 0 THEN candidates[1].content.parts ELSE <<>>
              usage_metadata == IF u # 0 THEN <<Usages[u]>> ELSE <<>>
          IN  /\ final_usage_metadata' =
                    [final_usage_metadata EXCEPT ![r] = CaptureUsage(@, usage_metadata)]
              /\ usage_seen' = [usage_seen EXCEPT ![r] = IF u # 0 THEN u ELSE @]
              /\ response' = [response EXCEPT ![r] =
                    [@ EXCEPT !.chunks = @ - 1, !.parts = @ - Len(parts)]]
              /\ IF parts # <<>>
                 THEN /\ chunk' = [chunk EXCEPT ![r] =
                                      [parts |-> parts, index |-> 1,
                                       unread |-> PartsAfterFirst(candidates)]]
                      /\ pc' = [pc EXCEPT ![r] = "part"]
                 ELSE /\ chunk' = [chunk EXCEPT ![r] = NoChunk]
                      /\ pc' = pc
    /\ UNCHANGED << tier, session_vars, frame, accumulated_parts, emitted, arrived >>

\* One part: normalize it; a non-empty dict is merged or appended and the
\* whole accumulated sequence is yielded as one line.  If the normalizer
\* raises, the except clause around the loop prints the error and raises it
\* again: the generator ends there.
NextPart(r) ==
    /\ pc[r] = "part"
    /\ LET part == chunk[r].parts[chunk[r].index]
           more == chunk[r].index < Len(chunk[r].parts)
       IN  IF serialize_part_raises(part)
           THEN /\ pc' = [pc EXCEPT ![r] = "raised"]
                /\ frame' = [frame EXCEPT ![r].error = "normalize"]
                /\ chunk' = [chunk EXCEPT ![r] = NoChunk]
                /\ UNCHANGED << accumulated_parts, emitted, arrived >>
           ELSE /\ \E fetch \in (IF part.file_data = <<>> THEN {NoFetch}
                                 ELSE IF response[r].rich THEN FetchOutcomes
                                 ELSE AllFetchOutcomes) :
                      LET part_dict == serialize_part(part, fetch)
                          merged == MergeOrAppend(accumulated_parts[r], part_dict)
                      IN  IF part_dict # <<>>
                          THEN /\ accumulated_parts' =
                                      [accumulated_parts EXCEPT ![r] = merged]
                               /\ emitted' =
                                      [emitted EXCEPT ![r] = Append(@, json_dumps(merged))]
                          ELSE UNCHANGED << accumulated_parts, emitted >>
                /\ arrived' = [arrived EXCEPT ![r] = Append(@, part)]
                /\ chunk' = [chunk EXCEPT ![r] =
                                 IF more THEN [@ EXCEPT !.index = @ + 1] ELSE NoChunk]
                /\ pc' = [pc EXCEPT ![r] = IF more THEN "part" ELSE "pull"]
                /\ frame' = IF part.file_data = <<>> THEN frame
                            ELSE [frame EXCEPT ![r].events =
                                     Append(@, <<"files.get",
                                                 file_name_arg(tier,
                                                               part.file_data[1].file_uri)>>)]
    /\ UNCHANGED << tier, session_vars, response, final_usage_metadata, usage_seen >>

\* The iterator is exhausted: with usage metadata the cost fragment is
\* appended and the final line yielded; then the generator returns.
Exhausted(r) ==
    /\ pc[r] = "pull"
    /\ LET closed == FinalParts(accumulated_parts[r], final_usage_metadata[r], tier,
                                frame[r].model)
       IN  IF final_usage_metadata[r] # <<>>
           THEN /\ accumulated_parts' = [accumulated_parts EXCEPT ![r] = closed]
                /\ emitted' = [emitted EXCEPT ![r] = Append(@, json_dumps(closed))]
           ELSE UNCHANGED << accumulated_parts, emitted >>
    /\ pc' = [pc EXCEPT ![r] = "done"]
    /\ UNCHANGED << tier, session_vars, frame, response, chunk, final_usage_metadata,
                    arrived, usage_seen >>

\* Mutant: the cost block runs before the error is raised again.
PullRaises_costed(r) ==
    /\ pc[r] = "pull"
    /\ LET closed == FinalParts(accumulated_parts[r], final_usage_metadata[r], tier,
                                frame[r].model)
       IN  IF final_usage_metadata[r] # <<>>
           THEN /\ accumulated_parts' = [accumulated_parts EXCEPT ![r] = closed]
                /\ emitted' = [emitted EXCEPT ![r] = Append(@, json_dumps(closed))]
           ELSE UNCHANGED << accumulated_parts, emitted >>
    /\ pc' = [pc EXCEPT ![r] = "raised"]
    /\ frame' = [frame EXCEPT ![r].error = "upstream"]
    /\ UNCHANGED << tier, session_vars, response, chunk, final_usage_metadata,
                    arrived, usage_seen >>

\* Pulling the next chunk raises: the error is printed and raised again.
PullRaises(r) ==
    /\ pc[r] = "pull"
    /\ pc' = [pc EXCEPT ![r] = "raised"]
    /\ frame' = [frame EXCEPT ![r].error = "upstream"]
    /\ UNCHANGED << tier, session_vars, stream_vars >>

(***************************************************************************)
(* The stream accumulator alone: one run of _stream_response on an         *)
(* arbitrary response, for either service and any model identifier.        *)
(***************************************************************************)
InitStream ==
    /\ tier \in {"free", "paid"}
    /\ chat_sessions = <<>>
    /\ issued = {}
    /\ files = <<>>
    /\ caches = <<>>
    /\ pc = [r \in Reqs |-> IF r = 1 THEN "pull" ELSE "idle"]
    /\ \E m \in StreamModels :
          frame = [r \in Reqs |-> IF r = 1 THEN [NoFrame EXCEPT !.op = "stream", !.model = m]
                                  ELSE NoFrame]
    /\ response = [r \in Reqs |->
                        IF r = 1
                        THEN [chunks |-> MaxChunks, parts |-> MaxParts, rich |-> TRUE]
                        ELSE NoResponse]
    /\ chunk = [r \in Reqs |-> NoChunk]
    /\ accumulated_parts = [r \in Reqs |-> <<>>]
    /\ final_usage_metadata = [r \in Reqs |-> <<>>]
    /\ emitted = [r \in Reqs |-> <<>>]
    /\ arrived = [r \in Reqs |-> <<>>]
    /\ usage_seen = [r \in Reqs |-> 0]

NextStream ==
    \E r \in Reqs : NextChunk(r) \/ NextPart(r) \/ Exhausted(r) \/ PullRaises(r)

SpecStream == InitStream /\ [][NextStream]_vars

(***************************************************************************)
(* The stream accumulator under a consumer that may stop.  The consumer    *)
(* closes the generator where it is suspended at a yield, or the task is   *)
(* cancelled at an await: GeneratorExit and CancelledError are no          *)
(* Exception, so neither `except Exception` clause catches them and the    *)
(* generator is left for good.                                             *)
(***************************************************************************)
\* Mutant: the except clause catches the close and the loop goes on.
AfterClose_resume(at) == at

\* Where the generator is once it was closed at `at`.
AfterClose(at) == "closed"

Close(r) ==
    /\ pc[r] \in {"pull", "part"}
    /\ frame[r].error = ""
    /\ pc' = [pc EXCEPT ![r] = AfterClose(pc[r])]
    /\ frame' = [frame EXCEPT ![r].error = "closed"]
    /\ UNCHANGED << tier, session_vars, stream_vars >>

InitCancel ==
    /\ tier \in {"free", "paid"}
    /\ chat_sessions = <<>>
    /\ issued = {}
    /\ files = <<>>
    /\ caches = <<>>
    /\ pc = [r \in Reqs |-> IF r = 1 THEN "pull" ELSE "idle"]
    /\ \E m \in StreamModels :
          frame = [r \in Reqs |-> IF r = 1 THEN [NoFrame EXCEPT !.op = "stream", !.model = m]
                                  ELSE NoFrame]
    /\ response = [r \in Reqs |->
                        IF r = 1
                        THEN [chunks |-> MaxChunks, parts |-> MaxParts - 1, rich |-> TRUE]
                        ELSE NoResponse]
    /\ chunk = [r \in Reqs |-> NoChunk]
    /\ accumulated_parts = [r \in Reqs |-> <<>>]
    /\ final_usage_metadata = [r \in Reqs |-> <<>>]
    /\ emitted = [r \in Reqs |-> <<>>]
    /\ arrived = [r \in Reqs |-> <<>>]
    /\ usage_seen = [r \in Reqs |-> 0]

NextCancel ==
    \E r \in Reqs :
        NextChunk(r) \/ NextPart(r) \/ Exhausted(r) \/ PullRaises(r) \/ Close(r)

SpecCancel == InitCancel /\ [][NextCancel]_vars

(***************************************************************************)
(* The fragment normalizer on one part with a file reference, the last     *)
(* part of the last chunk of a response, under every outcome of the fetch. *)
(***************************************************************************)
InitNormalizer ==
    /\ tier \in {"free", "paid"}
    /\ chat_sessions = <<>>
    /\ issued = {}
    /\ files = <<>>
    /\ caches = <<>>
    /\ pc = [r \in Reqs |-> IF r = 1 THEN "part" ELSE "idle"]
    /\ \E m \in StreamModels :
          frame = [r \in Reqs |-> IF r = 1 THEN [NoFrame EXCEPT !.op = "stream", !.model = m]
                                  ELSE NoFrame]
    /\ response = [r \in Reqs |-> NoResponse]
    /\ \E part \in NormalizerParts :
          chunk = [r \in Reqs |-> IF r = 1
                                  THEN [parts |-> <<part>>, index |-> 1, unread |-> <<>>]
                                  ELSE NoChunk]
    /\ accumulated_parts = [r \in Reqs |-> <<>>]
    /\ final_usage_metadata = [r \in Reqs |-> <<>>]
    /\ emitted = [r \in Reqs |-> <<>>]
    /\ arrived = [r \in Reqs |-> <<>>]
    /\ usage_seen = [r \in Reqs |-> 0]

NextNormalizer == \E r \in Reqs : NextPart(r) \/ Exhausted(r)

SpecNormalizer == InitNormalizer /\ [][NextNormalizer]_vars

(***************************************************************************)
(* The pricing engine at the end of a stream: the last usage metadata the  *)
(* upstream service attached is in final_usage_metadata, the iterator is   *)
(* exhausted, and the cost fragment is computed and yielded.  The usage    *)
(* counts run over the cases the tier threshold and max(0, ...) separate.  *)
(***************************************************************************)
PricingUsages ==
    [ prompt_token_count : {0, 20, TierLimitPro, TierLimitPro + 1},
      cached_content_token_count : {0, 1, 40, 1000},
      candidates_token_count : {0, 4},
      thoughts_token_count : {0, 2},
      tool_use_prompt_token_count : {0, 3} ]

\* A cost of num/den nano-dollars lies exactly half way between two
\* micro-dollars: round(x, 6) then goes where the binary float happens to lie.
HalfWay(num, den) == (2 * num) % (2000 * den) = 1000 * den

\* The usage counts on which no amount the pricing engine rounds, at the rates
\* of either tier of the model's family, lies half way.
NoHalfWay(usage_metadata, model) ==
    LET pricing_config == PRICING_TIERS[get_pricing_model(model)]
        cached == usage_metadata.cached_content_token_count
        new_input == Max(0, usage_metadata.prompt_token_count - cached
                            + usage_metadata.tool_use_prompt_token_count)
        output == usage_metadata.candidates_token_count
                  + usage_metadata.thoughts_token_count
    IN  /\ \A rates \in {pricing_config.tier_1, pricing_config.tier_2} :
              /\ ~HalfWay(new_input * rates.input, 1)
              /\ ~HalfWay(output * rates.output, 1)
              /\ ~HalfWay(cached * rates.cache_read, 1)
              /\ ~HalfWay(new_input * rates.input + output * rates.output
                          + cached * rates.cache_read, 1)
        /\ ~HalfWay(cached * pricing_config.tier_1.storage * StorageMinutes, 60)

InitPricing ==
    /\ tier \in {"free", "paid"}
    /\ chat_sessions = <<>>
    /\ issued = {}
    /\ files = <<>>
    /\ caches = <<>>
    /\ pc = [r \in Reqs |-> IF r = 1 THEN "pull" ELSE "idle"]
    /\ \E m \in ModelNames, u \in PricingUsages :
          /\ NoHalfWay(u, m)
          /\ frame = [r \in Reqs |->
                          IF r = 1 THEN [NoFrame EXCEPT !.op = "stream", !.model = m]
                          ELSE NoFrame]
          /\ final_usage_metadata = [r \in Reqs |-> IF r = 1 THEN <<u>> ELSE <<>>]
    /\ response = [r \in Reqs |-> NoResponse]
    /\ chunk = [r \in Reqs |-> NoChunk]
    /\ accumulated_parts = [r \in Reqs |-> <<>>]
    /\ emitted = [r \in Reqs |-> <<>>]
    /\ arrived = [r \in Reqs |-> <<>>]
    /\ usage_seen = [r \in Reqs |-> 0]

NextPricing == \E r \in Reqs : Exhausted(r)

SpecPricing == InitPricing /\ [][NextPricing]_vars

(***************************************************************************)
(* Chat sessions (create_chat, send_message_to_chat, delete_chat) and the  *)
(* cache lifecycle of the paid-tier service.  A handler runs without       *)
(* interruption between two awaits, so one action goes from one await to   *)
(* the next: the outcome of the call awaited is chosen when it returns.    *)
(***************************************************************************)
DefaultTtlMinutes == 10

\* The model the cache is created for when the caller passes none.
DefaultCacheModel == <<"f", "l", "a", "s", "h">>

\* Arguments of create_chat that may be None.
FileContents == {<<>>, <<<<1, 2>>>>}
Filenames == {<<>>, <<"data.csv">>}
ContentTypes == {<<>>, <<"text/csv">>}

\* Mutant: the config never binds the cache.
get_chat_config_unbound(service, cache_name) ==
    [thinking_config |-> TRUE, cached_content |-> 0, tools |-> TRUE]

\* Mutant: the config binds the cache and declares the tools as well.
get_chat_config_both(service, cache_name) ==
    [thinking_config |-> TRUE, cached_content |-> cache_name, tools |-> TRUE]

\* _get_chat_config: the generation config of a chat handle.  Only the paid
\* tier binds a cache, and then declares no tools.
get_chat_config(service, cache_name) ==
    IF service = "paid" /\ cache_name # 0
    THEN [thinking_config |-> TRUE, cached_content |-> cache_name, tools |-> FALSE]
    ELSE [thinking_config |-> TRUE, cached_content |-> 0, tools |-> TRUE]

\* model if model.startswith("models/") else f"models/{model}"
cache_model(model) ==
    IF model # <<>> /\ model[1] = "models/" THEN model ELSE <<"models/">> \o model

\* The cache caches.create answers with (_upload_and_cache_file), and the
\* calls delete_chat and the heartbeat have made on it.
NewCache(file, filename, ttl_minutes, model) ==
    [ model |-> cache_model(model), contents |-> <<file>>,
      display_name |-> <<"cache_", filename>>, ttl |-> ttl_minutes * 60,
      tools |-> TRUE, deleted |-> FALSE, update_calls |-> 0, delete_calls |-> 0 ]

\* The session dict create_chat stores.
SessionDict(service, chat, model, uploaded_file, cache_name) ==
    IF service = "paid"
    THEN [chat |-> chat, model |-> model, cache_name |-> cache_name]
    ELSE [chat |-> chat, model |-> model, uploaded_file |-> uploaded_file]

\* Mutant: the membership test of send_message_to_chat always succeeds.
session_known_always(sessions, chat_id) == TRUE

\* `chat_id in self._chat_sessions`, the test send_message_to_chat begins with
session_known(sessions, chat_id) == chat_id \in DOMAIN sessions

\* Mutant: the heartbeat is skipped.
AfterLookup_skip(cache_name) == "send_wait"

\* What send_message_to_chat awaits first once the session is looked up: the
\* heartbeat when a cache is bound, the upstream send otherwise.
AfterLookup(cache_name) == IF cache_name # 0 THEN "hb_wait" ELSE "send_wait"

\* Mutant: the pending file stays on the session.
ClearPendingFile_keep(chat_session) == chat_session

\* Mutant: attaching the pending file also forgets the model of the session.
ClearPendingFile_model(chat_session) ==
    [chat_session EXCEPT !.uploaded_file = 0, !.model = <<>>]

\* chat_session['uploaded_file'] = None, once the file is put in the payload
ClearPendingFile(chat_session) == [chat_session EXCEPT !.uploaded_file = 0]

\* Mutant: _update_cache_heartbeat without its try/except.
AfterHeartbeat_raise(outcome) == IF outcome = "error" THEN "raised" ELSE "send_wait"

\* Where send_message_to_chat goes when caches.update has returned or raised:
\* _update_cache_heartbeat prints the error and returns, the send comes next.
AfterHeartbeat(outcome) == "send_wait"

\* Mutant: delete_chat without its membership test, `del` raises KeyError.
delete_chat_unguarded(sessions, cache_state, service, chat_id, outcome) ==
    IF chat_id \notin DOMAIN sessions
    THEN [sessions |-> sessions, caches |-> cache_state, events |-> <<>>,
          result |-> "key_error"]
    ELSE LET cache_name == IF service = "paid" THEN sessions[chat_id].cache_name ELSE 0
             after_call ==
                 IF cache_name # 0
                 THEN [cache_state EXCEPT ![cache_name].delete_calls = @ + 1,
                                          ![cache_name].deleted = @ \/ outcome = "ok"]
                 ELSE cache_state
             call == IF cache_name # 0 THEN <<<<"caches.delete", cache_name>>>> ELSE <<>>
         IN  [sessions |-> [k \in DOMAIN sessions \ {chat_id} |-> sessions[k]],
              caches |-> after_call,
              events |-> call \o <<<<"del", chat_id>>>>,
              result |-> "returned"]

\* Mutant: delete_chat without try/except around caches.delete.
delete_chat_propagates(sessions, cache_state, service, chat_id, outcome) ==
    IF chat_id \notin DOMAIN sessions
    THEN [sessions |-> sessions, caches |-> cache_state, events |-> <<>>,
          result |-> "returned"]
    ELSE LET cache_name == IF service = "paid" THEN sessions[chat_id].cache_name ELSE 0
             after_call ==
                 IF cache_name # 0
                 THEN [cache_state EXCEPT ![cache_name].delete_calls = @ + 1,
                                          ![cache_name].deleted = @ \/ outcome = "ok"]
                 ELSE cache_state
             call == IF cache_name # 0 THEN <<<<"caches.delete", cache_name>>>> ELSE <<>>
         IN  IF cache_name # 0 /\ outcome = "error"
             THEN [sessions |-> sessions, caches |-> after_call, events |-> call,
                   result |-> "cache_delete"]
             ELSE [sessions |-> [k \in DOMAIN sessions \ {chat_id} |-> sessions[k]],
                   caches |-> after_call,
                   events |-> call \o <<<<"del", chat_id>>>>,
                   result |-> "returned"]

\* Mutant: delete_chat keeps the session when caches.delete fails, so that a
\* later delete_chat calls caches.delete again.
delete_chat_retry(sessions, cache_state, service, chat_id, outcome) ==
    IF chat_id \notin DOMAIN sessions
    THEN [sessions |-> sessions, caches |-> cache_state, events |-> <<>>,
          result |-> "returned"]
    ELSE LET cache_name == IF service = "paid" THEN sessions[chat_id].cache_name ELSE 0
             after_call ==
                 IF cache_name # 0
                 THEN [cache_state EXCEPT ![cache_name].delete_calls = @ + 1,
                                          ![cache_name].deleted = @ \/ outcome = "ok"]
                 ELSE cache_state
             call == IF cache_name # 0 THEN <<<<"caches.delete", cache_name>>>> ELSE <<>>
             kept == cache_name # 0 /\ outcome = "error"
         IN  [sessions |-> IF kept THEN sessions
                           ELSE [k \in DOMAIN sessions \ {chat_id} |-> sessions[k]],
              caches |-> after_call,
              events |-> IF kept THEN call ELSE call \o <<<<"del", chat_id>>>>,
              result |-> "returned"]

\* Mutant: delete_chat deletes the cache and leaves the session registered.
delete_chat_cache_only(sessions, cache_state, service, chat_id, outcome) ==
    IF chat_id \notin DOMAIN sessions
    THEN [sessions |-> sessions, caches |-> cache_state, events |-> <<>>,
          result |-> "returned"]
    ELSE LET cache_name == IF service = "paid" THEN sessions[chat_id].cache_name ELSE 0
             after_call ==
                 IF cache_name # 0
                 THEN [cache_state EXCEPT ![cache_name].delete_calls = @ + 1,
                                          ![cache_name].deleted = @ \/ outcome = "ok"]
                 ELSE cache_state
             call == IF cache_name # 0 THEN <<<<"caches.delete", cache_name>>>> ELSE <<>>
         IN  [sessions |-> sessions, caches |-> after_call, events |-> call,
              result |-> "returned"]

\* delete_chat, given what caches.delete does if it is called: the registry
\* and the caches afterwards, the calls made in order, and how it ended.
delete_chat(sessions, cache_state, service, chat_id, outcome) ==
    IF chat_id \notin DOMAIN sessions
    THEN [sessions |-> sessions, caches |-> cache_state, events |-> <<>>,
          result |-> "returned"]
    ELSE LET cache_name == IF service = "paid" THEN sessions[chat_id].cache_name ELSE 0
             after_call ==
                 IF cache_name # 0
                 THEN [cache_state EXCEPT ![cache_name].delete_calls = @ + 1,
                                          ![cache_name].deleted = @ \/ outcome = "ok"]
                 ELSE cache_state
             call == IF cache_name # 0 THEN <<<<"caches.delete", cache_name>>>> ELSE <<>>
         IN  [sessions |-> [k \in DOMAIN sessions \ {chat_id} |-> sessions[k]],
              caches |-> after_call,
              events |-> call \o <<<<"del", chat_id>>>>,
              result |-> "returned"]

\* Mutant: the session is stored before chats.create is called, and stays
\* when chats.create raises.
Register_early(r, chat_id, model, file_content, uploaded_file, cache_name) ==
    \E chat_outcome \in {"ok", "error"} :
        LET config == get_chat_config(tier, cache_name)
            chat == [model |-> model, config |-> config]
            calls == Append(frame[r].events, <<"chats.create", config.cached_content>>)
        IN  /\ chat_sessions' =
                   (chat_id :> SessionDict(tier, chat, model, uploaded_file, cache_name))
                   @@ chat_sessions
            /\ IF chat_outcome = "ok"
               THEN /\ pc' = [pc EXCEPT ![r] = "done"]
                    /\ frame' = [frame EXCEPT ![r] =
                                    [NoFrame EXCEPT !.op = "create", !.chat_id = chat_id,
                                                    !.model = model,
                                                    !.file_content = file_content,
                                                    !.cache_name = cache_name,
                                                    !.file = IF uploaded_file # 0
                                                             THEN uploaded_file
                                                             ELSE frame[r].file,
                                                    !.events = calls]]
               ELSE /\ pc' = [pc EXCEPT ![r] = "raised"]
                    /\ frame' = [frame EXCEPT ![r] =
                                    [NoFrame EXCEPT !.op = "create", !.chat_id = chat_id,
                                                    !.error = "chat_create"]]

\* The end of create_chat: chats.create builds the chat handle and the session
\* is stored under chat_id, or chats.create raises and the error is raised again.
Register(r, chat_id, model, file_content, uploaded_file, cache_name) ==
    \E chat_outcome \in {"ok", "error"} :
        LET config == get_chat_config(tier, cache_name)
            chat == [model |-> model, config |-> config]
            calls == Append(frame[r].events, <<"chats.create", config.cached_content>>)
        IN  IF chat_outcome = "ok"
            THEN /\ chat_sessions' =
                        (chat_id :> SessionDict(tier, chat, model, uploaded_file, cache_name))
                        @@ chat_sessions
                 /\ pc' = [pc EXCEPT ![r] = "done"]
                 /\ frame' = [frame EXCEPT ![r] =
                                 [NoFrame EXCEPT !.op = "create", !.chat_id = chat_id,
                                                 !.model = model,
                                                 !.file_content = file_content,
                                                 !.cache_name = cache_name,
                                                 !.file = IF uploaded_file # 0
                                                          THEN uploaded_file
                                                          ELSE frame[r].file,
                                                 !.events = calls]]
            ELSE /\ chat_sessions' = chat_sessions
                 /\ pc' = [pc EXCEPT ![r] = "raised"]
                 /\ frame' = [frame EXCEPT ![r] =
                                 [NoFrame EXCEPT !.op = "create", !.chat_id = chat_id,
                                                 !.error = "chat_create"]]

Raise(r, op, chat_id, error) ==
    /\ pc' = [pc EXCEPT ![r] = "raised"]
    /\ frame' = [frame EXCEPT ![r] =
                    [NoFrame EXCEPT !.op = op, !.chat_id = chat_id, !.error = error]]

\* Handlers take the request slots in order.
FreeSlot(r) == pc[r] = "idle" /\ \A q \in 1..(r - 1) : pc[q] # "idle"

\* Mutant: the id generator hands out the same id every time.
uuid4_same(taken) == {1}

\* str(uuid.uuid4()): an id never returned before.  The ids carry no meaning,
\* so they are handed out in increasing order.
uuid4(taken) == {i \in ChatIds \ taken : \A j \in ChatIds \ taken : i <= j}

\* create_chat up to its first await: a fresh id; with file bytes, a filename
\* and a content type the upload is started, otherwise the session is built.
CreateStart(r) ==
    /\ FreeSlot(r)
    /\ \E chat_id \in uuid4(issued), model \in StreamModels,
          file_content \in FileContents, filename \in Filenames,
          content_type \in ContentTypes :
          /\ issued' = issued \cup {chat_id}
          /\ IF file_content # <<>> /\ filename # <<>> /\ content_type # <<>>
             THEN /\ pc' = [pc EXCEPT ![r] = "upload_wait"]
                  /\ frame' = [frame EXCEPT ![r] =
                        [NoFrame EXCEPT !.op = "create", !.chat_id = chat_id,
                                        !.model = model,
                                        !.file_content = file_content,
                                        !.filename = filename,
                                        !.content_type = content_type,
                                        !.events = << <<"files.upload", 0>> >>]]
                  /\ chat_sessions' = chat_sessions
             ELSE Register(r, chat_id, model, file_content, 0, 0)
    /\ UNCHANGED << tier, files, caches, stream_vars >>

\* files.upload returns.  The free tier keeps the handle as the pending file
\* of the session; the paid tier goes on to create a cache from it.
UploadReturns(r) ==
    /\ pc[r] = "upload_wait"
    /\ \E outcome \in {"ok", "error"} :
          LET uploaded == Append(files, [display_name |-> frame[r].filename[1],
                                         mime_type |-> frame[r].content_type[1]])
              handle == Len(uploaded)
              request == NewCache(handle, frame[r].filename[1], DefaultTtlMinutes,
                                  DefaultCacheModel)
          IN  IF outcome = "error"
              THEN /\ Raise(r, "create", frame[r].chat_id, "upload")
                   /\ UNCHANGED << files, chat_sessions >>
              ELSE /\ files' = uploaded
                   /\ IF tier = "paid"
                      THEN /\ pc' = [pc EXCEPT ![r] = "cache_wait"]
                           /\ frame' = [frame EXCEPT ![r].file = handle,
                                                     ![r].events =
                                                         Append(@, <<"caches.create",
                                                                     request.ttl>>)]
                           /\ chat_sessions' = chat_sessions
                      ELSE Register(r, frame[r].chat_id, frame[r].model,
                                    frame[r].file_content, handle, 0)
    /\ UNCHANGED << tier, issued, caches, stream_vars >>

\* caches.create returns (paid tier): the session is built around the cache.
\* create_chat passes no model to _upload_and_cache_file, so the cache is
\* created for the default model.
CacheCreateReturns(r) ==
    /\ pc[r] = "cache_wait"
    /\ \E outcome \in {"ok", "error"} :
          LET created == Append(caches, NewCache(frame[r].file, frame[r].filename[1],
                                                 DefaultTtlMinutes, DefaultCacheModel))
              cache_name == Len(created)
          IN  IF outcome = "error"
              THEN /\ Raise(r, "create", frame[r].chat_id, "cache_create")
                   /\ UNCHANGED << caches, chat_sessions >>
              ELSE /\ caches' = created
                   /\ Register(r, frame[r].chat_id, frame[r].model,
                               frame[r].file_content, 0, cache_name)
    /\ UNCHANGED << tier, issued, files, stream_vars >>

\* send_message_to_chat up to its first await.  An unknown id raises the
\* not-found error.  The paid tier starts the heartbeat if the session has a
\* cache; the free tier attaches the pending file and clears it.  Without a
\* heartbeat the upstream send is started.
SendStart(r) ==
    /\ FreeSlot(r)
    /\ \E chat_id \in ChatIds :
          LET known == chat_id \in DOMAIN chat_sessions
              start == [NoFrame EXCEPT !.op = "send", !.chat_id = chat_id, !.known = known]
          IN  IF ~session_known(chat_sessions, chat_id)
              THEN /\ pc' = [pc EXCEPT ![r] = "raised"]
                   /\ frame' = [frame EXCEPT ![r] = [start EXCEPT !.error = "not_found"]]
                   /\ UNCHANGED << chat_sessions, caches >>
              ELSE IF ~known
              THEN \* self._chat_sessions[chat_id] raises KeyError
                   /\ pc' = [pc EXCEPT ![r] = "raised"]
                   /\ frame' = [frame EXCEPT ![r] = [start EXCEPT !.error = "key_error"]]
                   /\ UNCHANGED << chat_sessions, caches >>
              ELSE IF tier = "paid"
              THEN LET cache_name == chat_sessions[chat_id].cache_name
                       next == AfterLookup(cache_name)
                   IN  /\ pc' = [pc EXCEPT ![r] = next]
                       /\ frame' = [frame EXCEPT ![r] =
                             [start EXCEPT !.cache_name = cache_name,
                                           !.model = chat_sessions[chat_id].model,
                                           !.events =
                                               IF next = "hb_wait"
                                               THEN <<<<"caches.update", cache_name>>>>
                                               ELSE <<<<"send", 0>>>>]]
                       /\ caches' = IF next = "hb_wait"
                                    THEN [caches EXCEPT ![cache_name].update_calls = @ + 1]
                                    ELSE caches
                       /\ chat_sessions' = chat_sessions
              ELSE LET uploaded_file == chat_sessions[chat_id].uploaded_file
                   IN  /\ pc' = [pc EXCEPT ![r] = "send_wait"]
                       /\ frame' = [frame EXCEPT ![r] =
                             [start EXCEPT !.model = chat_sessions[chat_id].model,
                                           !.file = uploaded_file,
                                           !.events = <<<<"send", uploaded_file>>>>]]
                       /\ chat_sessions' =
                             IF uploaded_file # 0
                             THEN [chat_sessions EXCEPT ![chat_id] = ClearPendingFile(@)]
                             ELSE chat_sessions
                       /\ caches' = caches
    /\ UNCHANGED << tier, issued, files, stream_vars >>

\* caches.update returns or raises (paid tier); an error is printed and
\* swallowed.  Either way the upstream send is started next.
HeartbeatReturns(r) ==
    /\ pc[r] = "hb_wait"
    /\ \E outcome \in {"ok", "error"} :
          LET next == AfterHeartbeat(outcome)
          IN  /\ caches[frame[r].cache_name].deleted => outcome = "error"
              /\ caches' = IF outcome = "ok"
                           THEN [caches EXCEPT
                                    ![frame[r].cache_name].ttl = DefaultTtlMinutes * 60]
                           ELSE caches
              /\ frame' = [frame EXCEPT
                              ![r].events =
                                  @ \o << <<"caches.update returned", outcome>> >>
                                    \o (IF next = "send_wait" THEN << <<"send", 0>> >>
                                        ELSE <<>>),
                              ![r].error = IF next = "raised" THEN "heartbeat" ELSE @]
              /\ pc' = [pc EXCEPT ![r] = next]
    /\ UNCHANGED << tier, chat_sessions, issued, files, stream_vars >>

\* send_message_stream returns the response iterator, or raises.
SendReturns(r) ==
    /\ pc[r] = "send_wait"
    /\ \E outcome \in {"ok", "error"} :
          IF outcome = "ok"
          THEN /\ pc' = [pc EXCEPT ![r] = "pull"]
               /\ frame' = frame
               /\ StartStream(r, SessionResponse)
          ELSE /\ pc' = [pc EXCEPT ![r] = "raised"]
               /\ frame' = [frame EXCEPT ![r].error = "upstream"]
               /\ UNCHANGED stream_vars
    /\ UNCHANGED << tier, session_vars >>

\* delete_chat: a synchronous function, it runs to its end in one step.  Its
\* frame keeps the cache the session was bound to and the calls it made.
DeleteChat(r) ==
    /\ FreeSlot(r)
    /\ \E chat_id \in ChatIds, outcome \in {"ok", "error"} :
          LET res == delete_chat(chat_sessions, caches, tier, chat_id, outcome)
              known == chat_id \in DOMAIN chat_sessions
          IN  /\ chat_sessions' = res.sessions
              /\ caches' = res.caches
              /\ pc' = [pc EXCEPT ![r] = IF res.result = "returned" THEN "done"
                                         ELSE "raised"]
              /\ frame' = [frame EXCEPT ![r] =
                    [NoFrame EXCEPT
                        !.op = "delete", !.chat_id = chat_id, !.known = known,
                        !.cache_name = IF known /\ tier = "paid"
                                       THEN chat_sessions[chat_id].cache_name ELSE 0,
                        !.events = res.events,
                        !.error = IF res.result = "returned" THEN "" ELSE res.result]]
    /\ UNCHANGED << tier, issued, files, stream_vars >>

\* Either service, freshly constructed: no session, no request under way.
InitService ==
    /\ tier \in {"free", "paid"}
    /\ chat_sessions = <<>>
    /\ issued = {}
    /\ files = <<>>
    /\ caches = <<>>
    /\ pc = [r \in Reqs |-> "idle"]
    /\ frame = [r \in Reqs |-> NoFrame]
    /\ response = [r \in Reqs |-> NoResponse]
    /\ chunk = [r \in Reqs |-> NoChunk]
    /\ accumulated_parts = [r \in Reqs |-> <<>>]
    /\ final_usage_metadata = [r \in Reqs |-> <<>>]
    /\ emitted = [r \in Reqs |-> <<>>]
    /\ arrived = [r \in Reqs |-> <<>>]
    /\ usage_seen = [r \in Reqs |-> 0]

\* The handlers interleave at their awaits.  Only the paid tier ever waits for
\* caches.create or for the heartbeat.
NextService ==
    \E r \in Reqs :
          \/ CreateStart(r) \/ UploadReturns(r) \/ CacheCreateReturns(r)
          \/ SendStart(r) \/ HeartbeatReturns(r) \/ SendReturns(r)
          \/ NextChunk(r) \/ NextPart(r) \/ Exhausted(r) \/ PullRaises(r)
          \/ DeleteChat(r)

SpecService == InitService /\ [][NextService]_vars

(***************************************************************************)
(* analyze_file_stream: a one-time analysis.  The file, if given, is       *)
(* uploaded, a chat is created that is stored nowhere, and one message is  *)
(* sent on it; its response is streamed like any other.                    *)
(***************************************************************************)
Queries == { <<"q">>, <<"u", "v">> }

\* How many analyses are started in a run.
MaxAnalyses == 1
Analyses == {r \in Reqs : frame[r].op = "analyze"}

\* The f-string of the prompt: fixed text with the query embedded in it.
prompt_of(query) == <<"<">> \o query \o <<">">>

\* str(c) for an element of contents: a string is itself, the handle of an
\* uploaded file is the text that describes the object.
str(c) == IF "handle" \in DOMAIN c THEN <<"F", "#", ToString(c.handle)>> ELSE c.string

\* " ".join(strs)
RECURSIVE join(_)
join(strs) ==
    IF strs = <<>> THEN <<>>
    ELSE IF Len(strs) = 1 THEN strs[1]
    ELSE strs[1] \o <<" ">> \o join(Tail(strs))

\* message_content = " ".join(str(c) for c in contents) if contents else query
message_content(contents, query) ==
    IF contents # <<>> THEN join([i \in 1..Len(contents) |-> str(contents[i])])
    ELSE query

\* The try block of analyze_file_stream up to its await: chats.create builds
\* a chat that is kept in a local only, and the message, one string, is sent
\* on it.  The frame keeps the content parts of the message sent; the
\* filename and the content type are not used again.
AnalyzeSend(r, start, contents, query) ==
    \E chat_outcome \in {"ok", "error"} :
        LET config == get_chat_config(tier, 0)
            message == message_content(contents, query)
        IN  IF chat_outcome = "ok"
            THEN /\ pc' = [pc EXCEPT ![r] = "send_wait"]
                 /\ frame' = [frame EXCEPT ![r] =
                       [start EXCEPT !.message = << [text |-> message] >>,
                                     !.filename = <<>>, !.content_type = <<>>,
                                     !.events = @ \o << <<"chats.create",
                                                          config.cached_content>>,
                                                        <<"send", 0>> >>]]
            ELSE /\ pc' = [pc EXCEPT ![r] = "raised"]
                 /\ frame' = [frame EXCEPT ![r] =
                       [start EXCEPT !.error = "chat_create",
                                     !.filename = <<>>, !.content_type = <<>>,
                                     !.events = Append(@, <<"chats.create",
                                                            config.cached_content>>)]]

\* analyze_file_stream up to its first await: with file bytes, a filename and
\* a content type the upload is started, otherwise the prompt is sent alone.
AnalyzeStart(r) ==
    /\ FreeSlot(r)
    /\ Cardinality(Analyses) < MaxAnalyses
    /\ \E model \in StreamModels, query \in Queries,
          file_content \in FileContents, filename \in Filenames,
          content_type \in ContentTypes :
          LET prompt == prompt_of(query)
              start == [NoFrame EXCEPT !.op = "analyze", !.model = model,
                                       !.file_content = file_content,
                                       !.filename = filename,
                                       !.content_type = content_type,
                                       !.prompt = prompt]
          IN  IF file_content # <<>> /\ filename # <<>> /\ content_type # <<>>
              THEN /\ pc' = [pc EXCEPT ![r] = "analyze_upload_wait"]
                   /\ frame' = [frame EXCEPT ![r] =
                         [start EXCEPT !.events = << <<"files.upload", 0>> >>]]
              ELSE AnalyzeSend(r, start, << [string |-> prompt] >>, query)
    /\ UNCHANGED << tier, session_vars, stream_vars >>

\* files.upload returns to analyze_file_stream: contents is the prompt and the
\* uploaded file, and the message is sent; or the upload raises.
AnalyzeUploadReturns(r) ==
    /\ pc[r] = "analyze_upload_wait"
    /\ \E outcome \in {"ok", "error"} :
          LET uploaded == Append(files, [display_name |-> frame[r].filename[1],
                                         mime_type |-> frame[r].content_type[1]])
              uploaded_file == Len(uploaded)
          IN  IF outcome = "error"
              THEN /\ pc' = [pc EXCEPT ![r] = "raised"]
                   /\ frame' = [frame EXCEPT ![r].error = "upload"]
                   /\ files' = files
              ELSE /\ files' = uploaded
                   /\ AnalyzeSend(r, [frame[r] EXCEPT !.file = uploaded_file],
                                  << [string |-> frame[r].prompt],
                                     [handle |-> uploaded_file] >>,
                                  <<>>)
    /\ UNCHANGED << tier, chat_sessions, issued, caches, stream_vars >>

\* The analyses of a service that serves nothing else.
NextAnalyze ==
    \E r \in Reqs :
          \/ AnalyzeStart(r) \/ AnalyzeUploadReturns(r) \/ SendReturns(r)
          \/ NextChunk(r) \/ NextPart(r) \/ Exhausted(r) \/ PullRaises(r)

SpecAnalyze == InitService /\ [][NextAnalyze]_vars

(***************************************************************************)
(* Properties of the stream accumulator.  A line is read back as what it   *)
(* serializes: a sequence of fragments, each a sequence of key/value pairs.*)
(***************************************************************************)
IsPrefix(s, t) == Len(s) <= Len(t) /\ SubSeq(t, 1, Len(s)) = s

FragKeys(f) == {f[k][1] : k \in 1..Len(f)}
FragValue(f, key) == f[CHOOSE k \in 1..Len(f) : f[k][1] = key][2]
FragHasCost(f) == "costData" \in FragKeys(f)
LineHasCost(line) == \E i \in 1..Len(line) : FragHasCost(line[i])

\* The line serializes exactly the sequence `parts`.
LineShows(line, parts) ==
    /\ Len(line) = Len(parts)
    /\ \A i \in 1..Len(line) :
          /\ FragKeys(line[i]) = DOMAIN parts[i]
          /\ \A k \in 1..Len(line[i]) : line[i][k][2] = parts[i][line[i][k][1]]

\* Fragment g is fragment f, or f with its text extended and nothing else changed.
SameOrTextExtended(f, g) ==
    \/ g = f
    \/ /\ "text" \in FragKeys(f)
       /\ FragKeys(g) = FragKeys(f)
       /\ \A key \in FragKeys(f) \ {"text"} : FragValue(g, key) = FragValue(f, key)
       /\ IsPrefix(FragValue(f, "text"), FragValue(g, "text"))

MonotonicStep(line, next) ==
    /\ Len(next) >= Len(line)
    /\ \A i \in 1..(Len(line) - 1) : next[i] = line[i]
    /\ Len(line) > 0 => SameOrTextExtended(line[Len(line)], next[Len(line)])

\* C1: for any two consecutive emitted lines of a run the second is at least
\* as long as the first, agrees with it at every index below the first's last
\* index, and differs from it at that last index at most by an extended text.
C1_Monotonic ==
    \A r \in Reqs : \A i \in 1..(Len(emitted[r]) - 1) :
        MonotonicStep(emitted[r][i], emitted[r][i + 1])

\* C1 witness: a run in which one line extended the text of the last fragment
\* of its predecessor and a later line appended a fragment.
C1_Witness ==
    \E r \in Reqs : \E i, j \in 1..(Len(emitted[r]) - 1) :
        /\ i < j
        /\ Len(emitted[r][i + 1]) = Len(emitted[r][i])
        /\ emitted[r][i + 1] # emitted[r][i]
        /\ Len(emitted[r][j + 1]) > Len(emitted[r][j])

\* Payload kinds of an incoming part.
CarriesText(part) == part.text # <<>>
CarriesOther(part) ==
    \/ part.executable_code # <<>>
    \/ part.code_execution_result # <<>>
    \/ part.inline_data # <<>>
    \/ part.file_data # <<>>
CarriesOnlyText(part) == CarriesText(part) /\ ~CarriesOther(part)
CarriesNothing(part) == ~CarriesText(part) /\ ~CarriesOther(part)

\* The texts of the maximal runs of consecutive parts that are in InRun, in
\* arrival order, each run's texts concatenated.  A part in Skipped is passed
\* over; any other part ends the run.  `runs` are the runs found before
\* parts[i], `open` tells whether the last of them may still grow.
RECURSIVE RunTexts(_, _, _, _, _, _)
RunTexts(parts, i, runs, open, InRun, Skipped) ==
    IF i > Len(parts) THEN runs
    ELSE IF parts[i] \in Skipped
         THEN RunTexts(parts, i + 1, runs, open, InRun, Skipped)
    ELSE IF parts[i] \notin InRun
         THEN RunTexts(parts, i + 1, runs, FALSE, InRun, Skipped)
    ELSE IF open
         THEN RunTexts(parts, i + 1,
                       [runs EXCEPT ![Len(runs)] = @ \o parts[i].text], TRUE,
                       InRun, Skipped)
    ELSE RunTexts(parts, i + 1, Append(runs, parts[i].text), TRUE, InRun, Skipped)

\* The texts of the fragments of an accumulated sequence that have text.
RECURSIVE TextsOf(_)
TextsOf(parts) ==
    IF parts = <<>> THEN <<>>
    ELSE (IF "text" \in DOMAIN parts[1] THEN <<parts[1]["text"]>> ELSE <<>>)
         \o TextsOf(Tail(parts))

\* C2 as claimed, on responses none of whose parts carries text together with
\* another payload: every maximal run of consecutive text-only parts (a part
\* without payload ends a run like any other part) gives exactly one text
\* fragment, holding the run's texts concatenated in arrival order.
C2_Original ==
    \A r \in Reqs :
        (\A i \in 1..Len(arrived[r]) :
            ~(CarriesText(arrived[r][i]) /\ CarriesOther(arrived[r][i])))
        => TextsOf(accumulated_parts[r])
             = RunTexts(arrived[r], 1, <<>>, FALSE,
                        {p \in StreamParts : CarriesOnlyText(p)}, {})

\* C2 as amended: with the parts that normalize to an empty object passed over
\* (they neither end nor start a run), every maximal run of consecutive parts
\* that carry text gives exactly one fragment with text, holding the run's
\* texts concatenated in arrival order, also across chunk boundaries; so a
\* part with text starts a new fragment exactly when the fragment before it
\* has no text.
C2_TextRunsMerge ==
    \A r \in Reqs :
        TextsOf(accumulated_parts[r])
          = RunTexts(arrived[r], 1, <<>>, FALSE,
                     {p \in StreamParts : CarriesText(p)},
                     {p \in StreamParts : CarriesNothing(p)})

\* C2 witness: text "A", a part without payload, text "B" were normalized and
\* the accumulated sequence is the single fragment "AB".
C2_Witness ==
    \E r \in Reqs :
        /\ arrived[r] = <<TextPart(<<"A">>), EmptyPart, TextPart(<<"B">>)>>
        /\ accumulated_parts[r] = <<"text" :> <<"A", "B">>>>

\* C3: once a response is drained to exhaustion, the last emitted line holds a
\* cost fragment exactly if some chunk carried usage metadata; and without
\* any usage metadata no emitted line holds a cost fragment.
C3_CostIffUsage ==
    \A r \in Reqs :
        /\ pc[r] = "done" =>
              ((emitted[r] # <<>> /\ LineHasCost(Last(emitted[r]))) <=> usage_seen[r] # 0)
        /\ usage_seen[r] = 0 =>
              \A i \in 1..Len(emitted[r]) : ~LineHasCost(emitted[r][i])

\* C3 witness: a drained response whose usage metadata was followed by a later
\* fragment line, ending in a line with the cost fragment.
C3_Witness ==
    \E r \in Reqs :
        /\ pc[r] = "done"
        /\ usage_seen[r] # 0
        /\ Len(emitted[r]) >= 3
        /\ LineHasCost(Last(emitted[r]))

\* C4: a line holds at most one cost fragment; a cost fragment is only in the
\* last line emitted, at its last index, and once it is there the run is over:
\* nothing is appended or merged after it.
C4_CostOnceAndLast ==
    \A r \in Reqs : \A i \in 1..Len(emitted[r]) :
        LET line == emitted[r][i]
        IN  LineHasCost(line) =>
              /\ i = Len(emitted[r])
              /\ \A k \in 1..Len(line) : FragHasCost(line[k]) <=> k = Len(line)
              /\ pc[r] = "done"
              /\ LineShows(line, accumulated_parts[r])

\* C4 witness: the cost fragment closes a line that holds other fragments.
C4_Witness ==
    \E r \in Reqs :
        /\ emitted[r] # <<>>
        /\ Len(Last(emitted[r])) >= 3
        /\ FragHasCost(Last(Last(emitted[r])))

NonEmptyCount(parts) == Cardinality({i \in 1..Len(parts) : ~CarriesNothing(parts[i])})

\* C5: the lines emitted are one per part that normalized to a non-empty
\* dict, plus one for the cost fragment; the newest line always shows the
\* entire accumulated sequence (so a part without payload emits nothing and
\* changes nothing); one text part with usage metadata gives exactly the two
\* lines [text] and [text, cost].
C5_OneLinePerFragment ==
    \A r \in Reqs :
        LET costLines == IF \E i \in 1..Len(accumulated_parts[r]) :
                                "costData" \in DOMAIN accumulated_parts[r][i]
                         THEN 1 ELSE 0
        IN  /\ Len(emitted[r]) = NonEmptyCount(arrived[r]) + costLines
            /\ IF emitted[r] = <<>> THEN accumulated_parts[r] = <<>>
               ELSE LineShows(Last(emitted[r]), accumulated_parts[r])
            /\ (pc[r] = "done" /\ usage_seen[r] # 0 /\ Len(arrived[r]) = 1
                  /\ CarriesOnlyText(arrived[r][1]))
               => /\ Len(emitted[r]) = 2
                  /\ emitted[r][1] = << << <<"text", arrived[r][1].text>> >> >>
                  /\ Len(emitted[r][2]) = 2
                  /\ emitted[r][2][1] = emitted[r][1][1]
                  /\ FragKeys(emitted[r][2][2]) = {"costData"}

\* C5 witness: a drained response of one text part, an empty part and usage
\* metadata: two lines.
C5_Witness ==
    \E r \in Reqs :
        /\ pc[r] = "done"
        /\ usage_seen[r] # 0
        /\ arrived[r] = <<TextPart(<<"A">>)>>
        /\ Len(emitted[r]) = 2

(***************************************************************************)
(* Properties of the session registry and of the cache lifecycle.  A       *)
(* handler's frame keeps what it was called with, whether the id was       *)
(* registered when it began, and the calls it made, in order.              *)
(***************************************************************************)
Sends == {r \in Reqs : frame[r].op = "send"}
Deletes == {r \in Reqs : frame[r].op = "delete"}
Creates == {r \in Reqs : frame[r].op = "create"}
CallsOf(r, call) == {k \in 1..Len(frame[r].events) : frame[r].events[k][1] = call}

\* The cache create_chat bound to the session registered under chat_id, 0 if
\* it bound none.
CacheBoundTo(chat_id) ==
    IF \E r \in Creates : frame[r].chat_id = chat_id /\ pc[r] = "done"
    THEN frame[CHOOSE r \in Creates : frame[r].chat_id = chat_id /\ pc[r] = "done"].cache_name
    ELSE 0

\* C6: send_message_to_chat with an id that is not in the registry raises the
\* not-found error and does nothing else: it calls neither the heartbeat nor
\* the upstream send, yields no line, and the step that starts it leaves the
\* registry (and the caches) as they were.
C6_UnknownSendFails ==
    [][ \A r \in Reqs :
            (frame'[r].op = "send" /\ ~frame'[r].known)
                => /\ pc'[r] = "raised"
                   /\ frame'[r].error = "not_found"
                   /\ frame'[r].events = <<>>
                   /\ emitted'[r] = <<>>
                   /\ (pc[r] = "idle"
                         => chat_sessions' = chat_sessions /\ caches' = caches) ]_vars

\* A send on an id that is not registered, while another session is.
C6_Witness ==
    \E r \in Sends :
        /\ ~frame[r].known
        /\ frame[r].error = "not_found"
        /\ chat_sessions # <<>>
        /\ frame[r].chat_id \notin DOMAIN chat_sessions

\* C7: delete_chat on an id that is not in the registry (never created, or
\* deleted before) returns normally, calls caches.delete not at all and
\* leaves the registry and the caches as they were; after any delete_chat the
\* id is out of the registry and one more delete_chat on it changes nothing.
C7_DeleteIdempotent ==
    [][ \A r \in Reqs :
            (pc[r] = "idle" /\ frame'[r].op = "delete")
                => LET chat_id == frame'[r].chat_id
                   IN  /\ ~frame'[r].known
                            => /\ pc'[r] = "done"
                               /\ frame'[r].error = ""
                               /\ frame'[r].events = <<>>
                               /\ chat_sessions' = chat_sessions
                               /\ caches' = caches
                       /\ chat_id \notin DOMAIN chat_sessions'
                       /\ \A outcome \in {"ok", "error"} :
                             LET again == delete_chat(chat_sessions', caches', tier,
                                                      chat_id, outcome)
                             IN  /\ again.sessions = chat_sessions'
                                 /\ again.caches = caches'
                                 /\ again.events = <<>>
                                 /\ again.result = "returned" ]_vars

\* delete_chat has run twice on the id of a session that had a cache.
C7_Witness ==
    \E r1, r2 \in Deletes :
        /\ r1 < r2
        /\ frame[r1].chat_id = frame[r2].chat_id
        /\ frame[r1].known /\ ~frame[r2].known
        /\ frame[r1].cache_name # 0
        /\ pc[r2] = "done"

\* C8: in the paid tier a delete_chat that found the session registered has
\* removed it and returned normally, whatever caches.delete did.
C8_DeleteAlwaysRemoves ==
    \A r \in Deletes :
        (tier = "paid" /\ frame[r].known)
            => /\ frame[r].chat_id \notin DOMAIN chat_sessions
               /\ pc[r] = "done"
               /\ frame[r].error = ""

\* delete_chat has run on a session whose caches.delete call failed.
C8_Witness ==
    \E r \in Deletes :
        /\ tier = "paid" /\ frame[r].known /\ frame[r].cache_name # 0
        /\ caches[frame[r].cache_name].delete_calls = 1
        /\ ~caches[frame[r].cache_name].deleted
        /\ pc[r] = "done"

\* C9: in the paid tier a delete_chat on a registered session calls
\* caches.delete exactly once, for the cache create_chat bound to the session,
\* and then removes the session; without a cache it only removes the session.
\* Every cache has received at most one caches.delete call, one per
\* delete_chat that found its session, and none while its session is
\* registered.
C9_OneCacheDeletePerCache ==
    tier = "paid" =>
        /\ \A r \in Deletes :
              frame[r].known =>
                  LET chat_id == frame[r].chat_id
                      cache_name == CacheBoundTo(chat_id)
                  IN  frame[r].events =
                          IF cache_name # 0
                          THEN << <<"caches.delete", cache_name>>, <<"del", chat_id>> >>
                          ELSE << <<"del", chat_id>> >>
        /\ \A c \in DOMAIN caches :
              /\ caches[c].delete_calls <= 1
              /\ caches[c].delete_calls =
                    Cardinality({r \in Deletes : <<"caches.delete", c>> \in
                                    {frame[r].events[k] : k \in 1..Len(frame[r].events)}})
        /\ \A chat_id \in DOMAIN chat_sessions :
              chat_sessions[chat_id].cache_name # 0
                  => caches[chat_sessions[chat_id].cache_name].delete_calls = 0

\* delete_chat has run twice on a session that had a cache: the cache has
\* received one caches.delete call.
C9_Witness ==
    /\ tier = "paid"
    /\ \E r1, r2 \in Deletes :
            /\ r1 # r2
            /\ frame[r1].chat_id = frame[r2].chat_id
            /\ frame[r1].known
            /\ CacheBoundTo(frame[r1].chat_id) # 0
            /\ caches[CacheBoundTo(frame[r1].chat_id)].delete_calls = 1

\* C10: in the paid tier a send on a session with a cache calls caches.update
\* exactly once, for the cache create_chat bound to the session, and starts
\* the upstream send only when that call has returned or failed; a send on a
\* session without a cache calls the upstream send only.  Every cache has
\* received as many caches.update calls as sends were started on its session.
C10_HeartbeatBeforeSend ==
    tier = "paid" =>
        /\ \A r \in Sends :
              frame[r].known =>
                  LET cache_name == CacheBoundTo(frame[r].chat_id)
                      events == frame[r].events
                  IN  IF cache_name # 0
                      THEN /\ Cardinality(CallsOf(r, "caches.update")) = 1
                           /\ events[1] = <<"caches.update", cache_name>>
                           /\ Len(events) \in {1, 3}
                           /\ Len(events) = 1 <=> pc[r] = "hb_wait"
                           /\ Len(events) = 3
                                 => /\ events[2][1] = "caches.update returned"
                                    /\ events[3] = <<"send", 0>>
                      ELSE /\ events = << <<"send", 0>> >>
                           /\ pc[r] # "hb_wait"
        /\ \A c \in DOMAIN caches :
              caches[c].update_calls =
                  Cardinality({r \in Sends : frame[r].known
                                             /\ CacheBoundTo(frame[r].chat_id) = c})

\* Two messages were sent on a session with a cache: two heartbeats, each
\* returned before its send, one of them failed.
C10_Witness ==
    /\ tier = "paid"
    /\ \E r1, r2 \in Sends :
            /\ r1 # r2
            /\ frame[r1].chat_id = frame[r2].chat_id
            /\ CacheBoundTo(frame[r1].chat_id) # 0
            /\ Len(frame[r1].events) = 3 /\ Len(frame[r2].events) = 3
            /\ frame[r1].events[2][2] = "error"
            /\ caches[CacheBoundTo(frame[r1].chat_id)].update_calls = 2

\* C11: in the paid tier a heartbeat that fails does not end the send: the
\* step in which caches.update returns goes on to the upstream send whatever
\* the outcome, records no error and touches neither the registry nor the
\* stream; a send whose heartbeat failed is never found raised for any reason
\* but the upstream.
C11_HeartbeatFailureSwallowed ==
    [][ \A r \in Reqs :
            /\ (pc[r] = "hb_wait" /\ pc'[r] # "hb_wait")
                  => /\ pc'[r] = "send_wait"
                     /\ frame'[r].error = ""
                     /\ Len(frame'[r].events) = 3
                     /\ frame'[r].events[3] = <<"send", 0>>
                     /\ chat_sessions' = chat_sessions
                     /\ emitted' = emitted /\ accumulated_parts' = accumulated_parts
            /\ (frame'[r].op = "send" /\ Len(frame'[r].events) >= 2
                   /\ frame'[r].events[2] = <<"caches.update returned", "error">>)
                  => /\ frame'[r].error \in {"", "upstream"}
                     /\ pc'[r] \in {"send_wait", "pull", "part", "done", "raised"} ]_vars

\* A send whose heartbeat failed has produced its whole stream, lines included.
C11_Witness ==
    \E r \in Sends :
        /\ Len(frame[r].events) = 3
        /\ frame[r].events[2] = <<"caches.update returned", "error">>
        /\ pc[r] = "done"
        /\ Len(emitted[r]) >= 2

\* C12: in the paid tier create_chat with a file calls files.upload, then
\* caches.create with a TTL that is not empty, then chats.create with a config
\* bound to the name of the cache just created (a cache of its own, holding
\* the file uploaded); the session is registered only after the three calls,
\* and stores that cache name.
C12_CreateWithFileOrder ==
    tier = "paid" =>
        \A r \in Creates :
            LET events == frame[r].events
                chat_id == frame[r].chat_id
                cache_name == frame[r].cache_name
            IN  /\ pc[r] = "upload_wait"
                      => /\ events = << <<"files.upload", 0>> >>
                         /\ chat_id \notin DOMAIN chat_sessions
                /\ pc[r] = "cache_wait"
                      => /\ Len(events) = 2
                         /\ events[1] = <<"files.upload", 0>>
                         /\ events[2][1] = "caches.create" /\ events[2][2] > 0
                         /\ chat_id \notin DOMAIN chat_sessions
                /\ (pc[r] = "done" /\ frame[r].file # 0)
                      => /\ Len(events) = 3
                         /\ events[1] = <<"files.upload", 0>>
                         /\ events[2][1] = "caches.create" /\ events[2][2] > 0
                         /\ events[3] = <<"chats.create", cache_name>>
                         /\ cache_name \in DOMAIN caches
                         /\ caches[cache_name].contents = <<frame[r].file>>
                         /\ caches[cache_name].ttl > 0
                         /\ \A q \in Creates \ {r} : frame[q].cache_name # cache_name
                         /\ chat_id \in DOMAIN chat_sessions
                               => /\ chat_sessions[chat_id].cache_name = cache_name
                                  /\ chat_sessions[chat_id].chat.config.cached_content
                                        = cache_name

\* Two sessions were created with a file each and are registered.
C12_Witness ==
    /\ tier = "paid"
    /\ \E r1, r2 \in Creates :
            /\ r1 # r2
            /\ pc[r1] = "done" /\ pc[r2] = "done"
            /\ frame[r1].file # 0 /\ frame[r2].file # 0
            /\ {frame[r1].chat_id, frame[r2].chat_id} \subseteq DOMAIN chat_sessions

\* A generation config carries a cache name or a tools declaration, not both
\* and not neither.
CacheXorTools(config) == (config.cached_content # 0) # config.tools

\* C13: in the paid tier the config _get_chat_config builds, for no cache
\* (create_chat without a file, analyze_file_stream) and for every cache
\* created, carries either the cache name or the tools declaration, never
\* both and never neither; so does the config of every chat handle
\* registered, and the cache a config is bound to declares the tools itself.
C13_CacheXorTools ==
    tier = "paid" =>
        /\ \A cache_name \in {0} \cup DOMAIN caches :
              LET config == get_chat_config(tier, cache_name)
              IN  /\ CacheXorTools(config)
                  /\ config.cached_content = cache_name
        /\ \A chat_id \in DOMAIN chat_sessions :
              LET config == chat_sessions[chat_id].chat.config
              IN  /\ CacheXorTools(config)
                  /\ config.cached_content = chat_sessions[chat_id].cache_name
                  /\ config.cached_content # 0
                        => /\ config.cached_content \in DOMAIN caches
                           /\ caches[config.cached_content].tools

\* Two chat handles are registered, one bound to a cache and one declaring
\* the tools.
C13_Witness ==
    /\ tier = "paid"
    /\ \E a, b \in DOMAIN chat_sessions :
            /\ chat_sessions[a].chat.config.cached_content # 0
            /\ chat_sessions[b].chat.config.tools

\* C14: in the paid tier the cache of every registered session is created for
\* the model of the session and of its chat handle, up to the "models/"
\* prefix.  create_chat does not hand its model to _upload_and_cache_file, so
\* this fails for any model but the default one.
C14_CacheForTargetModel ==
    tier = "paid" =>
        \A chat_id \in DOMAIN chat_sessions :
            LET session == chat_sessions[chat_id]
            IN  session.cache_name # 0
                    => /\ session.chat.model = session.model
                       /\ caches[session.cache_name].model = cache_model(session.model)

\* The sends that found chat_id registered, and the first of them (handlers
\* take the slots in the order they start).
SendsOn(chat_id) == {r \in Sends : frame[r].known /\ frame[r].chat_id = chat_id}
FirstSendOn(chat_id) == CHOOSE r \in SendsOn(chat_id) : \A q \in SendsOn(chat_id) : r <= q

\* C15: in the free tier, for a session created with a file, the payload of
\* the first send on the session holds the file handle and the payload of no
\* later send does, however the sends interleave; the handle stays pending on
\* the session exactly until that first send.
C15_FileSentOnce ==
    tier = "free" =>
        \A c \in Creates :
            (pc[c] = "done" /\ frame[c].file # 0)
                => LET chat_id == frame[c].chat_id
                       file == frame[c].file
                   IN  /\ \A r \in SendsOn(chat_id) :
                             frame[r].events =
                                 IF r = FirstSendOn(chat_id)
                                 THEN << <<"send", file>> >>
                                 ELSE << <<"send", 0>> >>
                       /\ chat_id \in DOMAIN chat_sessions
                             => chat_sessions[chat_id].uploaded_file =
                                    IF SendsOn(chat_id) = {} THEN file ELSE 0

\* Two sends on a session created with a file are both waiting for the
\* upstream send to return.
C15_Witness ==
    /\ tier = "free"
    /\ \E c \in Creates, r1, r2 \in Sends :
            /\ pc[c] = "done" /\ frame[c].file # 0
            /\ r1 # r2
            /\ {r1, r2} \subseteq SendsOn(frame[c].chat_id)
            /\ pc[r1] = "send_wait" /\ pc[r2] = "send_wait"

(***************************************************************************)
(* Properties of the pricing engine, read off the cost fragment a stream   *)
(* ends with.  Costs are in micro-dollars.                                 *)
(***************************************************************************)
Priced == {r \in Reqs : pc[r] = "done" /\ final_usage_metadata[r] # <<>>
                                       /\ accumulated_parts[r] # <<>>}
UsageOf(r) == final_usage_metadata[r][1]
CostOf(r) == Last(accumulated_parts[r]).costData

\* C16: the token breakdown reports new_input = max(0, prompt - cached +
\* tool_use), never negative, and output = candidates + thinking, also when
\* the cached count exceeds prompt + tool_use.
C16_NewInputNeverNegative ==
    \A r \in Priced :
        LET u == UsageOf(r)
            fresh == u.prompt_token_count - u.cached_content_token_count
                     + u.tool_use_prompt_token_count
            breakdown == CostOf(r).token_breakdown
        IN  /\ breakdown.new_input >= 0
            /\ fresh >= 0 => breakdown.new_input = fresh
            /\ fresh < 0 => breakdown.new_input = 0
            /\ breakdown.output = u.candidates_token_count + u.thoughts_token_count

\* A stream was priced whose cached count exceeds prompt + tool_use.
C16_Witness ==
    \E r \in Priced :
        /\ UsageOf(r).cached_content_token_count >
               UsageOf(r).prompt_token_count + UsageOf(r).tool_use_prompt_token_count
        /\ UsageOf(r).tool_use_prompt_token_count > 0
        /\ CostOf(r).token_breakdown.new_input = 0

Abs(x) == IF x >= 0 THEN x ELSE 0 - x
InteractionSum(cost) ==
    cost.cost_breakdown["input_cost"] + cost.cost_breakdown["output_cost"]
    + cost.cost_breakdown["cache_read_cost"]
ComponentSum(cost) ==
    InteractionSum(cost)
    + (IF "storage_cost" \in DOMAIN cost.cost_breakdown
       THEN cost.cost_breakdown["storage_cost"] ELSE 0)

\* C17 as stated: for the result of calculate_interaction_cost and for the
\* costData of every cost fragment, total_cost is input_cost + output_cost +
\* cache_read_cost up to rounding (four roundings of at most half a
\* micro-dollar each).  The free tier adds the storage cost to the total of
\* its fragment, so this fails there once cached tokens are counted.
C17_Original ==
    \A r \in Priced :
        /\ LET cost == calculate_interaction_cost(UsageOf(r), frame[r].model)
           IN  Abs(cost.total_cost - InteractionSum(cost)) <= 2
        /\ Abs(CostOf(r).total_cost - InteractionSum(CostOf(r))) <= 2

\* C17, amended: the total calculate_interaction_cost returns is input_cost +
\* output_cost + cache_read_cost up to rounding; the total of a cost fragment
\* is the sum of all the components its cost_breakdown lists up to rounding,
\* which are those three in the paid tier and those three and storage_cost in
\* the free tier.
C17_TotalIsSumOfComponents ==
    \A r \in Priced :
        /\ LET cost == calculate_interaction_cost(UsageOf(r), frame[r].model)
           IN  /\ Abs(cost.total_cost - InteractionSum(cost)) <= 2
               /\ DOMAIN cost.cost_breakdown =
                      {"input_cost", "output_cost", "cache_read_cost"}
        /\ Abs(CostOf(r).total_cost - ComponentSum(CostOf(r))) <= 2
        /\ ("storage_cost" \in DOMAIN CostOf(r).cost_breakdown) <=> tier = "free"

\* A free-tier stream with cached tokens was priced: its fragment lists a
\* storage cost that is more than rounding.
C17_Witness ==
    \E r \in Priced :
        /\ tier = "free"
        /\ UsageOf(r).cached_content_token_count > 0
        /\ CostOf(r).cost_breakdown["storage_cost"] > 2
        /\ CostOf(r).cost_breakdown["input_cost"] > 0

\* The rates of PRICING_TIERS a family is charged at for a prompt of the given
\* size, in milli-dollars per million tokens.
RatesFor(family, prompt_tokens) ==
    IF family = "pro"
    THEN IF prompt_tokens <= 200000
         THEN [input |-> 1250, output |-> 10000, cache_read |-> 125]
         ELSE [input |-> 2500, output |-> 15000, cache_read |-> 250]
    ELSE [input |-> 300, output |-> 2500, cache_read |-> 30]

\* cost (micro-dollars) is the micro-dollar nearest to an amount in nano-dollars.
NearestTo(cost, amount) == 2 * Abs(1000 * cost - amount) <= 1000

\* C18: the three costs calculate_interaction_cost returns are the token
\* counts at the rates of tier_1 when the total prompt count is at most
\* 200,000 and at the rates of tier_2 above, for the pro family; whatever the
\* cached, tool-use and new-input counts are.  For the flash family the rates
\* are the same at every prompt size.
C18_TierByPromptCount ==
    \A r \in Priced :
        LET u == UsageOf(r)
            cost == calculate_interaction_cost(u, frame[r].model)
            rates == RatesFor(cost.model_used, u.prompt_token_count)
        IN  /\ cost.model_used = get_pricing_model(frame[r].model)
            /\ NearestTo(cost.cost_breakdown["input_cost"],
                         cost.token_breakdown.new_input * rates.input)
            /\ NearestTo(cost.cost_breakdown["output_cost"],
                         cost.token_breakdown.output * rates.output)
            /\ NearestTo(cost.cost_breakdown["cache_read_cost"],
                         cost.token_breakdown.cached_input * rates.cache_read)
            /\ CostOf(r).cost_breakdown["input_cost"] = cost.cost_breakdown["input_cost"]

\* A pro stream was priced with a prompt of 200,001 tokens of which one was
\* cached: 200,000 new input tokens, charged at the rates of tier_2.
C18_Witness ==
    \E r \in Priced :
        /\ CostOf(r).model_used = "pro"
        /\ UsageOf(r).prompt_token_count = 200001
        /\ CostOf(r).token_breakdown.new_input = 200000
        /\ CostOf(r).cost_breakdown["input_cost"] = 500000
        /\ UsageOf(r).candidates_token_count > 0

(***************************************************************************)
(* Properties of the fragment normalizer on file references.               *)
(***************************************************************************)
SuccessShape(f) == DOMAIN f = {"mimeType", "data", "name"}
NetworkErrorShape(f) ==
    /\ DOMAIN f = {"mimeType", "fileUri", "error"}
    /\ f.error[1] = "Network error: "
ProcessingErrorShape(f) ==
    /\ DOMAIN f = {"mimeType", "fileUri", "error"}
    /\ f.error[1] = "Processing error: "
OneOfThreeShapes(f) ==
    Cardinality({shape \in {"success", "network", "processing"} :
                    \/ shape = "success" /\ SuccessShape(f)
                    \/ shape = "network" /\ NetworkErrorShape(f)
                    \/ shape = "processing" /\ ProcessingErrorShape(f)}) = 1

\* C19: for every part with a file reference and every outcome of the fetch,
\* the normalizer gives a fileData value of exactly one of the three shapes:
\* data and name without error, or fileUri and an error with the network
\* marker, or fileUri and an error with the processing marker.  A download
\* that raises a requests exception gives the network shape.  So it is for
\* the fragments accumulated.
C19_ThreeFileShapes ==
    \A r \in Reqs :
        /\ \A i \in 1..Len(arrived[r]) :
              arrived[r][i].file_data # <<>>
                  => \A fetch \in AllFetchOutcomes :
                         LET part_dict == serialize_part(arrived[r][i], fetch)
                         IN  /\ "fileData" \in DOMAIN part_dict
                             /\ OneOfThreeShapes(part_dict["fileData"])
                             /\ (fetch.get = "ok" /\ fetch.capability # "none"
                                    /\ fetch.download = "network")
                                   => NetworkErrorShape(part_dict["fileData"])
                             /\ SuccessShape(part_dict["fileData"])
                                   <=> (fetch.get = "ok" /\ fetch.capability # "none"
                                          /\ fetch.download = "ok")
        /\ \A i \in 1..Len(accumulated_parts[r]) :
              "fileData" \in DOMAIN accumulated_parts[r][i]
                  => OneOfThreeShapes(accumulated_parts[r][i]["fileData"])

\* A part with text and a file reference was normalized while the download
\* raised a network error.
C19_Witness ==
    \E r \in Reqs :
        /\ pc[r] = "done"
        /\ Len(accumulated_parts[r]) = 1
        /\ "text" \in DOMAIN accumulated_parts[r][1]
        /\ "fileData" \in DOMAIN accumulated_parts[r][1]
        /\ NetworkErrorShape(accumulated_parts[r][1]["fileData"])

ErrorFragment(d) == "fileData" \in DOMAIN d /\ "error" \in DOMAIN d["fileData"]
HasErrorFragment(parts) == \E i \in 1..Len(parts) : ErrorFragment(parts[i])

C21_UpstreamErrorAborts ==
    [][ \A r \in Reqs :
            /\ (pc[r] = "pull" /\ pc'[r] = "raised")
                  => /\ frame'[r].error = "upstream"
                     /\ emitted'[r] = emitted[r]
                     /\ accumulated_parts'[r] = accumulated_parts[r]
            /\ pc[r] = "raised"
                  => /\ pc'[r] = "raised"
                     /\ emitted'[r] = emitted[r]
                     /\ frame'[r].error = frame[r].error
            /\ pc'[r] = "raised"
                  => /\ frame'[r].error # ""
                     /\ \A k \in 1..Len(emitted'[r]) : ~LineHasCost(emitted'[r][k]) ]_vars

\* A send has yielded a line, seen usage metadata, and then the pull raised.
C21_Witness ==
    \E r \in Sends :
        /\ pc[r] = "raised"
        /\ frame[r].error = "upstream"
        /\ emitted[r] # <<>>
        /\ usage_seen[r] # 0

\* The fields a registered session holds in the service that runs.
SessionFields ==
    IF tier = "paid" THEN {"chat", "model", "cache_name"}
    ELSE {"chat", "model", "uploaded_file"}

\* C22: however the handlers interleave, a send that starts after a
\* delete_chat has run on the id of a registered session finds the id unknown:
\* it raises the not-found error and calls neither the heartbeat nor the
\* upstream send.  What a lookup finds in the registry is always a whole
\* session.
C22_DeleteThenSendNotFound ==
    /\ \A d \in Deletes, r \in Sends :
          (frame[d].known /\ r > d /\ frame[r].chat_id = frame[d].chat_id)
              => /\ ~frame[r].known
                 /\ pc[r] = "raised"
                 /\ frame[r].error = "not_found"
                 /\ frame[r].events = <<>>
                 /\ emitted[r] = <<>>
    /\ \A chat_id \in DOMAIN chat_sessions :
          /\ DOMAIN chat_sessions[chat_id] = SessionFields
          /\ tier = "paid" /\ chat_sessions[chat_id].cache_name # 0
                => caches[chat_sessions[chat_id].cache_name].delete_calls = 0

\* delete_chat removed a session that had a cache, and a send that started
\* afterwards on the same id was refused.
C22_Witness ==
    \E d, r \in Reqs :
        /\ d < r
        /\ frame[d].op = "delete" /\ frame[r].op = "send"
        /\ frame[r].chat_id = frame[d].chat_id
        /\ frame[d].known /\ frame[d].events # <<>>
        /\ pc[r] = "raised" /\ frame[r].error = "not_found"

\* C23: a create_chat that returns registers its id in that step: the id was
\* not in the registry, no earlier create_chat returned it, no session that
\* was deleted had it, every other session is left as it was, and the
\* registry maps the id to a session that holds the model asked for.
C23_CreateRegistersFreshId ==
    [][ \A r \in Reqs :
            (pc[r] # "done" /\ pc'[r] = "done" /\ frame'[r].op = "create")
                => LET chat_id == frame'[r].chat_id
                   IN  /\ chat_id \notin DOMAIN chat_sessions
                       /\ \A q \in Creates \ {r} : pc[q] = "done" => frame[q].chat_id # chat_id
                       /\ \A d \in Deletes : frame[d].known => frame[d].chat_id # chat_id
                       /\ DOMAIN chat_sessions' = DOMAIN chat_sessions \cup {chat_id}
                       /\ \A k \in DOMAIN chat_sessions : chat_sessions'[k] = chat_sessions[k]
                       /\ chat_sessions'[chat_id].model = frame'[r].model
                       /\ chat_sessions'[chat_id].chat.model = frame'[r].model
                       /\ pc[r] = "upload_wait" \/ pc[r] = "cache_wait"
                             => frame'[r].model = frame[r].model ]_vars

\* A second create_chat has returned after the session of the first was
\* deleted, and its session is registered under another id.
C23_Witness ==
    \E q, d, r \in Reqs :
        /\ q < d /\ d < r
        /\ frame[q].op = "create" /\ pc[q] = "done"
        /\ frame[d].op = "delete" /\ frame[d].known /\ frame[d].chat_id = frame[q].chat_id
        /\ frame[r].op = "create" /\ pc[r] = "done"
        /\ frame[r].chat_id \in DOMAIN chat_sessions
        /\ frame[r].chat_id # frame[q].chat_id

\* C24: whenever create_chat is given file bytes, whatever filename and
\* content type come with them, the file is uploaded before the chat handle
\* is created and the session is registered with what the upload gave: the
\* pending file in the free tier, a cache around it in the paid tier.
C24_FileBytesAlwaysUploaded ==
    \A r \in Creates :
        (pc[r] = "done" /\ frame[r].file_content # <<>>)
            => /\ CallsOf(r, "files.upload") # {}
               /\ \A u \in CallsOf(r, "files.upload"), c \in CallsOf(r, "chats.create") : u < c
               /\ frame[r].file # 0
               /\ tier = "paid" => frame[r].cache_name # 0

\* The identifier spells "pro" somewhere, in any mix of cases.
SpellsPro(model_name) ==
    \E i \in 1..(Len(model_name) - 2) :
        /\ model_name[i] \in {"p", "P"}
        /\ model_name[i + 1] \in {"r", "R"}
        /\ model_name[i + 2] \in {"o", "O"}

\* C25: the pricing engine charges an identifier that spells "pro" in any
\* letter case at the pro table and every other identifier, unknown ones
\* included, at the flash table; every cost fragment is computed, and at the
\* rates of one of the two tables, none of which is zero.
C25_ProOrFlashTable ==
    \A r \in Reqs :
        (pc[r] = "done" /\ final_usage_metadata[r] # <<>>)
            => /\ r \in Priced
               /\ "costData" \in DOMAIN Last(accumulated_parts[r])
               /\ LET u == UsageOf(r)
                      cost == CostOf(r)
                      table == PRICING_TIERS[cost.model_used]
                  IN  /\ cost.model_used = IF SpellsPro(frame[r].model) THEN "pro"
                                           ELSE "flash"
                      /\ \A t \in {table.tier_1, table.tier_2} :
                            t.input > 0 /\ t.output > 0 /\ t.cache_read > 0
                      /\ \E t \in {table.tier_1, table.tier_2} :
                            /\ NearestTo(cost.cost_breakdown["input_cost"],
                                         cost.token_breakdown.new_input * t.input)
                            /\ NearestTo(cost.cost_breakdown["output_cost"],
                                         cost.token_breakdown.output * t.output)
                      /\ cost.token_breakdown.new_input >= 20
                            => cost.cost_breakdown["input_cost"] > 0
                      /\ cost.token_breakdown.output >= 2
                            => cost.cost_breakdown["output_cost"] > 0

\* A stream of a model the tables do not know was priced, at the flash rates.
C25_Witness ==
    \E r \in Priced :
        /\ frame[r].model = <<"x", "1">>
        /\ CostOf(r).model_used = "flash"
        /\ UsageOf(r).prompt_token_count = 200001
        /\ CostOf(r).cost_breakdown["input_cost"] > 0
        /\ CostOf(r).cost_breakdown["output_cost"] > 0

\* C26: what the stream remembers is the usage metadata of the last chunk
\* that carried any: a later chunk's metadata takes the place of an earlier
\* one's, a later chunk without metadata leaves it; and the cost fragment of
\* a drained stream is computed from it.
C26_CostFromLastUsage ==
    \A r \in Reqs :
        /\ final_usage_metadata[r] =
              IF usage_seen[r] = 0 THEN <<>> ELSE <<Usages[usage_seen[r]]>>
        /\ (pc[r] = "done" /\ usage_seen[r] # 0)
              => LET u == Usages[usage_seen[r]]
                     cost == Last(accumulated_parts[r]).costData
                 IN  /\ cost = CostData(tier, u, frame[r].model)
                     /\ cost.token_breakdown.cached_input = u.cached_content_token_count
                     /\ cost.token_breakdown.total =
                            u.prompt_token_count + u.candidates_token_count
                            + u.thoughts_token_count
                     /\ FragValue(Last(Last(emitted[r])), "costData") = cost

\* Both chunks of a response came, the second metadata was the last seen and
\* the stream was priced from it.
C26_Witness ==
    \E r \in Reqs :
        /\ pc[r] = "done" /\ response[r].rich /\ response[r].chunks = 0
        /\ usage_seen[r] = 2
        /\ Last(accumulated_parts[r]).costData.token_breakdown.total =
              Usages[2].prompt_token_count + Usages[2].candidates_token_count
              + Usages[2].thoughts_token_count
        /\ Len(arrived[r]) >= 2

\* The keys of the payloads a part carries that the normalizer recognizes.
PayloadKeys(part) ==
    (IF part.text # <<>> THEN {"text"} ELSE {})
    \cup (IF part.executable_code # <<>> THEN {"executableCode"} ELSE {})
    \cup (IF part.code_execution_result # <<>> THEN {"codeExecutionResult"} ELSE {})
    \cup (IF part.inline_data # <<>> THEN {"inlineData"} ELSE {})
    \cup (IF part.file_data # <<>> THEN {"fileData"} ELSE {})

\* The last `n` elements of a sequence.
LastN(s, n) == SubSeq(s, Len(s) - n + 1, Len(s))

C28_PartFailureDegrades ==
    [][ \A r \in Reqs :
            /\ pc[r] = "part" => pc'[r] \in {"part", "pull"}
            /\ (pc[r] = "part" /\ serialize_part_raises(chunk[r].parts[chunk[r].index]))
                  => /\ Len(accumulated_parts'[r]) = Len(accumulated_parts[r]) + 1
                     /\ Len(emitted'[r]) = Len(emitted[r]) + 1
            /\ (pc[r] # "raised" /\ pc'[r] = "raised" /\ frame'[r].op = "stream")
                  => pc[r] = "pull" ]_vars

\* Request r takes the step: something of its own changes.
StepOf(r) ==
    \/ pc'[r] # pc[r] \/ frame'[r] # frame[r]
    \/ response'[r] # response[r] \/ chunk'[r] # chunk[r]
    \/ accumulated_parts'[r] # accumulated_parts[r]
    \/ final_usage_metadata'[r] # final_usage_metadata[r]
    \/ emitted'[r] # emitted[r] \/ arrived'[r] # arrived[r]

\* C29: no step of send_message_to_chat, from the lookup to the end of its
\* stream and whether the upstream send succeeds or raises, adds or removes
\* a session or changes a session other than the one addressed; of the
\* session addressed the chat handle, the model and (paid tier) the cache
\* name stay, and only the pending file (free tier) may change, to none.  A
\* session keeps the cache name it was registered with for as long as it is
\* registered.
C29_SendLeavesRegistry ==
    [][ /\ \A r \in Reqs :
              (StepOf(r) /\ frame'[r].op = "send")
                  => /\ DOMAIN chat_sessions' = DOMAIN chat_sessions
                     /\ \A k \in DOMAIN chat_sessions :
                           IF k = frame'[r].chat_id /\ tier = "free"
                           THEN /\ chat_sessions'[k].chat = chat_sessions[k].chat
                                /\ chat_sessions'[k].model = chat_sessions[k].model
                                /\ chat_sessions'[k].uploaded_file
                                      \in {0, chat_sessions[k].uploaded_file}
                           ELSE chat_sessions'[k] = chat_sessions[k]
                     /\ files' = files
                     /\ issued' = issued
        /\ tier = "paid"
              => \A k \in DOMAIN chat_sessions \cap DOMAIN chat_sessions' :
                    chat_sessions'[k].cache_name = chat_sessions[k].cache_name ]_vars

\* Free tier: a session was created with a file; one message on it was
\* answered to the end, another failed upstream; the session is registered
\* with its model and without the pending file.
C29_Witness ==
    /\ tier = "free"
    /\ \E c \in Creates, r1, r2 \in Sends :
          /\ pc[c] = "done" /\ frame[c].file # 0
          /\ frame[r1].known /\ frame[r1].chat_id = frame[c].chat_id /\ pc[r1] = "done"
          /\ frame[r2].known /\ frame[r2].chat_id = frame[c].chat_id
          /\ pc[r2] = "raised" /\ frame[r2].error = "upstream"
          /\ frame[c].chat_id \in DOMAIN chat_sessions
          /\ chat_sessions[frame[c].chat_id].model = frame[c].model
          /\ chat_sessions[frame[c].chat_id].uploaded_file = 0

\* C30: the cost fragment of the free tier lists storage_cost, the micro-
\* dollar nearest to (cached tokens / 1M) * the hourly storage rate of the
\* model's family * (10 / 60), the rate being the same below and above the
\* tier limit; its total_cost is the total of the interaction plus that
\* storage cost; without cached tokens the storage cost is 0 and the total is
\* the total of the interaction.
C30_FreeTierStorageCost ==
    tier = "free" =>
        \A r \in Priced :
            LET u == UsageOf(r)
                cost == CostOf(r)
                interaction == calculate_interaction_cost(u, frame[r].model)
                cached == u.cached_content_token_count
                hourly_rate == IF SpellsPro(frame[r].model) THEN 4500 ELSE 1000
            IN  /\ "storage_cost" \in DOMAIN cost.cost_breakdown
                /\ 2 * Abs(60 * 1000 * cost.cost_breakdown["storage_cost"]
                           - cached * hourly_rate * 10) <= 60 * 1000
                /\ cost.total_cost = interaction.total_cost
                                     + cost.cost_breakdown["storage_cost"]
                /\ \A key \in DOMAIN interaction.cost_breakdown :
                      cost.cost_breakdown[key] = interaction.cost_breakdown[key]
                /\ cached = 0 => /\ cost.cost_breakdown["storage_cost"] = 0
                                 /\ cost.total_cost = interaction.total_cost

\* A free-tier pro stream above the tier limit with 1000 cached tokens was
\* priced: ten minutes at $4.50 per million tokens and hour, 750 micro-dollars.
C30_Witness ==
    /\ tier = "free"
    /\ \E r \in Priced :
          /\ CostOf(r).model_used = "pro"
          /\ UsageOf(r).prompt_token_count = 200001
          /\ UsageOf(r).cached_content_token_count = 1000
          /\ CostOf(r).cost_breakdown["storage_cost"] = 750
          /\ CostOf(r).total_cost > 750

(***************************************************************************)
(* Properties of the file lookup, of cancellation and of the merge rule.   *)
(***************************************************************************)
\* The names the stream of request r has called files.get with, in order.
LookupsOf(r) ==
    [k \in 1..Cardinality(CallsOf(r, "files.get")) |->
        frame[r].events[CHOOSE i \in CallsOf(r, "files.get") :
                            Cardinality({j \in CallsOf(r, "files.get") : j <= i}) = k][2]]

\* C31: in either service, files.get is called with the resource name
\* files/<id> only: a URL is cut down to it, a reference that is files/<id>
\* is passed as it is.
C31_LookupByResourceName ==
    \A r \in Reqs :
        \A k \in 1..Len(LookupsOf(r)) :
            /\ Len(LookupsOf(r)[k]) = 2
            /\ LookupsOf(r)[k][1] = "files"

\* C32: once the consumer has stopped (the generator is closed), the stream
\* pulls no further chunk, starts no further file lookup, normalizes no
\* further part and emits no further line: nothing of the run changes.
C32_NoPullAfterClose ==
    [][ \A r \in Reqs :
            frame[r].error = "closed"
                => /\ pc[r] = "closed" /\ pc'[r] = "closed"
                   /\ response'[r] = response[r]
                   /\ chunk'[r] = chunk[r]
                   /\ frame'[r] = frame[r]
                   /\ arrived'[r] = arrived[r]
                   /\ emitted'[r] = emitted[r]
                   /\ accumulated_parts'[r] = accumulated_parts[r] ]_vars

\* The consumer stopped after a line, inside a chunk whose next part is a
\* file reference, with a chunk still to come: the file was not looked up.
C32_Witness ==
    \E r \in Reqs :
        /\ pc[r] = "closed"
        /\ emitted[r] # <<>>
        /\ response[r].chunks > 0
        /\ chunk[r].index >= 2
        /\ chunk[r].parts[chunk[r].index].file_data # <<>>
        /\ CallsOf(r, "files.get") = {}

\* C33: the merge rule loses no payload: once a part is normalized and its
\* result merged or appended, every payload kind the part carries is in the
\* fragment it went to, the last of the accumulated sequence; also for a
\* part with text and another payload that meets a last fragment with text.
C33_MergeKeepsEveryPayload ==
    [][ \A r \in Reqs :
            (pc[r] = "part" /\ arrived'[r] # arrived[r])
                => LET part == chunk[r].parts[chunk[r].index]
                   IN  PayloadKeys(part) # {}
                          => /\ accumulated_parts'[r] # <<>>
                             /\ PayloadKeys(part) \subseteq
                                    DOMAIN Last(accumulated_parts'[r]) ]_vars

(***************************************************************************)
(* Further properties of the session registry.                             *)
(***************************************************************************)
\* C34: in the paid tier, whatever calls were made and whichever of them
\* failed, every cache that was created and for which caches.delete was not
\* called is the cache of a registered session.
C34_NoCacheWithoutSession ==
    tier = "paid" =>
        \A cache_name \in DOMAIN caches :
            caches[cache_name].delete_calls = 0
                => \E chat_id \in DOMAIN chat_sessions :
                      chat_sessions[chat_id].cache_name = cache_name

\* C35: in the paid tier, however sends and deletes on a session interleave,
\* a send issues no heartbeat and no upstream send on a chat bound to a cache
\* once caches.delete was called for that cache.
C35_NoUseAfterCacheDelete ==
    [][ tier = "paid" =>
          \A r \in Reqs :
              ( /\ frame'[r].op = "send"
                /\ frame'[r].cache_name # 0
                /\ Len(frame'[r].events) > Len(frame[r].events)
                /\ Last(frame'[r].events)[1] \in {"caches.update", "send"} )
                  => caches[frame'[r].cache_name].delete_calls = 0 ]_vars

\* C36: in the free tier the pending file stays with the session until a
\* message that carries it is accepted upstream: when the upstream send of a
\* message carrying the file raises, the session still holds the file, for
\* the next message to carry.
C36_FileKeptUntilAccepted ==
    [][ tier = "free" =>
          \A r \in Reqs :
              ( /\ pc[r] = "send_wait" /\ pc'[r] = "raised"
                /\ frame[r].file # 0
                /\ frame[r].chat_id \in DOMAIN chat_sessions' )
                  => chat_sessions'[frame[r].chat_id].uploaded_file = frame[r].file ]_vars

\* C37: a create_chat that fails, at the upload, at the creation of the
\* cache or at the creation of the chat handle, raises the error and leaves
\* the registry as it was; and the id of a create_chat that has not returned
\* is not in the registry, so no lookup finds a session half built.
C37_FailedCreateLeavesRegistry ==
    [][ \A r \in Reqs :
            frame'[r].op = "create"
                => /\ (pc[r] # "raised" /\ pc'[r] = "raised")
                         => /\ chat_sessions' = chat_sessions
                            /\ frame'[r].error \in {"upload", "cache_create", "chat_create"}
                   /\ pc'[r] # "done" => frame'[r].chat_id \notin DOMAIN chat_sessions'
                   /\ \A k \in DOMAIN chat_sessions' :
                         DOMAIN chat_sessions'[k] = DOMAIN SessionDict(tier, 0, 0, 0, 0) ]_vars

\* Paid tier: beside a registered session, a create_chat with a file failed
\* at the creation of the chat handle, after its cache was created.
C37_Witness ==
    /\ tier = "paid"
    /\ \E c1, c2 \in Creates :
          /\ pc[c1] = "done" /\ frame[c1].chat_id \in DOMAIN chat_sessions
          /\ frame[c1].cache_name = 0
          /\ pc[c2] = "raised" /\ frame[c2].error = "chat_create"
          /\ DOMAIN chat_sessions = {frame[c1].chat_id}
          /\ caches # <<>>

\* What the parts (none of which holds a file reference) accumulate to, one
\* after the other, starting from the sequence `accumulated`.
RECURSIVE Replay(_, _)
Replay(accumulated, parts) ==
    IF parts = <<>> THEN accumulated
    ELSE LET part_dict == serialize_part(parts[1], NoFetch)
         IN  Replay(IF part_dict # <<>> THEN MergeOrAppend(accumulated, part_dict)
                    ELSE accumulated,
                    Tail(parts))

\* The sequence without the cost fragment that may close it.
WithoutCost(accumulated) ==
    IF accumulated # <<>> /\ "costData" \in DOMAIN Last(accumulated)
    THEN SubSeq(accumulated, 1, Len(accumulated) - 1)
    ELSE accumulated

\* C38: every run of the stream accumulator a send starts has an accumulated
\* sequence of its own that starts empty: however the streams interleave,
\* also two on one session, what a run has accumulated is what the parts of
\* its own chunks give from the empty sequence, and each of its lines shows
\* fragments of these parts only, in their order.
C38_RunsStartEmpty ==
    \A r \in Sends :
        /\ WithoutCost(accumulated_parts[r]) = Replay(<<>>, arrived[r])
        /\ arrived[r] = <<>> => WithoutCost(accumulated_parts[r]) = <<>>
        /\ \A k \in 1..Len(emitted[r]) :
              \E n \in 0..Len(arrived[r]) :
                  LET shown == Replay(<<>>, SubSeq(arrived[r], 1, n))
                  IN  /\ Len(emitted[r][k]) \in {Len(shown), Len(shown) + 1}
                      /\ \A i \in 1..Len(shown) :
                            /\ FragKeys(emitted[r][k][i]) = DOMAIN shown[i]
                            /\ \A key \in DOMAIN shown[i] :
                                  FragValue(emitted[r][k][i], key) = shown[i][key]
                      /\ Len(emitted[r][k]) = Len(shown) + 1
                            => FragHasCost(Last(emitted[r][k]))

\* Two messages on one session were answered to the end: each run has
\* emitted the text of its own chunk once.
C38_Witness ==
    \E r1, r2 \in Sends :
        /\ r1 # r2
        /\ frame[r1].known /\ frame[r2].known
        /\ frame[r1].chat_id = frame[r2].chat_id
        /\ pc[r1] = "done" /\ pc[r2] = "done"
        /\ WithoutCost(accumulated_parts[r1]) = <<"text" :> <<"A">>>>
        /\ WithoutCost(accumulated_parts[r2]) = <<"text" :> <<"A">>>>
        /\ emitted[r1] # <<>> /\ emitted[r2] # <<>>

(***************************************************************************)
(* Properties of the one-time analysis.                                    *)
(***************************************************************************)
UploadsOf(r) == {i \in 1..Len(frame[r].events) : frame[r].events[i][1] = "files.upload"}

\* prompt occurs in text as a contiguous run.
Embeds(text, prompt) ==
    \E i \in 0..(Len(text) - Len(prompt)) : SubSeq(text, i + 1, i + Len(prompt)) = prompt

\* C39: an analysis called with a file (its bytes, its name and its content
\* type) uploads it exactly once and sends a
\* message whose content parts include the handle of the uploaded file
\* together with the prompt that embeds the query; no step of an analysis
\* changes the session registry or takes a session id.
C39_AnalyzeSendsFileHandle ==
    [][ \A r \in Reqs :
            (frame'[r].op = "analyze" /\ StepOf(r))
                => /\ chat_sessions' = chat_sessions
                   /\ issued' = issued
                   /\ (pc[r] = "analyze_upload_wait" /\ pc'[r] = "send_wait")
                         => /\ Cardinality(UploadsOf(r)') = 1
                            /\ frame'[r].file # 0
                            /\ \E i \in 1..Len(frame'[r].message) :
                                  /\ "handle" \in DOMAIN frame'[r].message[i]
                                  /\ frame'[r].message[i].handle = frame'[r].file
                            /\ \E i \in 1..Len(frame'[r].message) :
                                  /\ "text" \in DOMAIN frame'[r].message[i]
                                  /\ Embeds(frame'[r].message[i].text, frame'[r].prompt) ]_vars

====
